---- MODULE Spec2Model ----
(***************************************************************************)
(* Option Chain Hub (src/app.py): the request handlers, the freshness      *)
(* caches in front of every upstream call, and the row pipeline of         *)
(* get_cached_rows.                                                        *)
(*                                                                         *)
(* Handlers are plain `def` endpoints, which FastAPI runs on a thread      *)
(* pool: requests interleave.  A step of a request is the code from one    *)
(* blocking upstream call or shared-cache access to the next.  The two     *)
(* reads and the two writes that get_marketwatch_rows makes on             *)
(* MARKETWATCH_CACHE are separate steps, as they are separate statements.  *)
(*                                                                         *)
(* An upstream record keeps the members the pipeline branches on (is it a  *)
(* mapping, its expiryDates text, the kind of its CE member, its strike);  *)
(* a row is abstracted to its CE_StrikePrice.  Fields named src_at and by   *)
(* are history fields: the `now` of the request whose upstream call        *)
(* produced the data, and the endpoint whose request stored an entry.  The *)
(* code has neither.                                                       *)
(*                                                                         *)
(* /api/ticker and its two caches, the -lite/-pretty/-chat wrappers (they  *)
(* call option_chain), windowing and pagination are not modelled here.     *)
(***************************************************************************)
EXTENDS Integers, Sequences, FiniteSets, TLC

\* ------------------------------------------------------------ bounds
\* The clock (time.time(), in model seconds from the start) runs to MaxTime.
MaxTime == 2

\* The longest list of further records an upstream payload carries.
MaxRecords == 2

\* The longest list of rows a response is put together from.
MaxRows == 4

\* The records of a market-watch snapshot given to the fallback adapter.
MaxSnapshot == 3

\* ------------------------------------------------- program constants
\* int(os.getenv("CACHE_TTL_SECONDS", "600")): any configured integer; 2 here.
CACHE_TTL_SECONDS == 2
MARKETWATCH_TTL_SECONDS == CACHE_TTL_SECONDS
DEFAULT_STRIKE_STEP == 5000

\* int(os.getenv("TE_CACHE_TTL_SECONDS", "60")) and
\* int(os.getenv("METALS_API_CACHE_TTL_SECONDS", "300")): 1 and 2 here.
TE_CACHE_TTL_SECONDS == 1
METALS_API_CACHE_TTL_SECONDS == 2

\* time.time() when the model clock reads 0: far more than any TTL.
StartTime == 1000

\* Python's None, where a string stands for it.
None == "None"

\* strike_step: Optional[float] = Query(None, ge=0): the absent step.
NoStep == -1

\* The request threads of the pool.
Threads == {"t1", "t2"}

\* A non-empty APP_TOKEN, and the tokens requests carry ("" is no token).
Secret == "s3cret"
Tokens == {"", "bad", Secret}

\* load_config(): symbol -> source.  ZINC is not configured; SENSEX is
\* configured with a source the service does not implement.
Config == [GOLD |-> "mcx", NIFTY |-> "nse", SENSEX |-> "bse"]

\* symbol.upper().strip() on the raw symbols the requests carry.
UpperStrip(s) ==
  CASE s = " gold" -> "GOLD"
    [] s = "nifty " -> "NIFTY"
    [] OTHER -> s

RawSymbols == {"GOLD", " gold", "NIFTY", "SENSEX", "ZINC"}

\* The expiry every option-chain and refresh request names (an explicit
\* expiry; "" is the absent expiry of get_nse_payload(symbol)).
Expiry1 == "27-Nov-2026"

\* ---------------------------------------------------- upstream records
\* A strike as float() sees it: a number, text that is no number, 'nan', 'inf'.
Num(v) == [t |-> "num", v |-> v]

\* A strike with decimals, v in thousandths: Dec(10000004) is 10000.004.
Dec(v) == [t |-> "dec", v |-> v]

\* float() gives a finite number.
Finite(x) == x.t \in {"num", "dec"}

\* A finite strike in thousandths.
Thousandths(x) == IF x.t = "dec" THEN x.v ELSE 1000 * x.v

StrikeValues == {Num(5100), [t |-> "text", v |-> 0], [t |-> "nan", v |-> 0],
                 [t |-> "inf", v |-> 0]}

\* A well-formed record of the requested expiry.
Record(strike) ==
  [kind |-> "map", expiryDates |-> Expiry1, CE |-> "map", strikePrice |-> Num(strike)]

\* The shapes a record of a payload can have: not a mapping at all; a CE
\* member that is a mapping, absent, text or a non-zero number; an
\* expiryDates text of the requested date, of another date, or of no date
\* of the calendar; a strike of each kind.
Shapes ==
  { [kind |-> "text", expiryDates |-> "", CE |-> "none", strikePrice |-> Num(0)] }
    \cup { [Record(5100) EXCEPT !.CE = c] : c \in {"map", "none", "text", "number"} }
    \cup { [Record(5100) EXCEPT !.expiryDates = e] :
             e \in {"27-11-2026", "24-12-2026", "31-02-2026"} }
    \cup { [Record(5100) EXCEPT !.strikePrice = s] : s \in StrikeValues }

\* The payloads with well-formed records only.
CleanFeed == << Record(5100) >>

RECURSIVE SeqsUpTo(_, _)
SeqsUpTo(S, n) ==
  IF n = 0 THEN { << >> }
  ELSE LET shorter == SeqsUpTo(S, n - 1)
       IN shorter \cup { <<x>> \o s : x \in S, s \in { q \in shorter : Len(q) = n - 1 } }

Feeds == SeqsUpTo(Shapes, MaxRecords)

VARIABLES
  now,                \* time.time()
  APP_TOKEN,          \* os.getenv("APP_TOKEN"), fixed at start
  feed,               \* the further records the option-chain upstreams serve
  workload,           \* the source of the symbols requested in this run, or "any"
  CACHE,              \* key -> [rows, fetched_at] (+ src_at, by)
  NSE_CACHE,          \* key -> [payload, fetched_at] (+ src_at)
  MARKETWATCH_CACHE,  \* dict with the keys "rows" and "fetched_at"
  pc,                 \* where each thread's request stands
  req,                \* the request a thread serves
  tnow,               \* get_cached_rows' local `now`
  snow,               \* get_nse_payload's / get_marketwatch_rows' local `now`
  lcached,            \* get_marketwatch_rows' local `cached`
  lrows,              \* get_cached_rows' local `rows`, once computed
  ucalls,             \* upstream calls the request has made so far
  out,                \* the last response, until a request makes its next step
  METALS_PROVIDER,    \* os.getenv("METALS_PROVIDER", "auto").strip().lower()
  METALS_API_KEY,     \* os.getenv("METALS_API_KEY", "").strip()
  TE_API_KEY,         \* os.getenv("TE_API_KEY", "").strip()
  TE_CACHE,           \* dict with the keys "rows" and "fetched_at"
  METALS_CACHE,       \* dict with the keys "items" and "fetched_at"
  entry_rows,         \* the list get_cached_rows returned (the entry's own list)
  chain_rows,         \* option_chain's local `rows` on its way to the response
  underlying,         \* option_chain's local `underlying`
  query,              \* the request's mode, window, offset and limit
  stage,              \* the statement of option_chain's tail that runs next
  rows_payload,       \* option_chain's local `rows_payload`, the rows of the response
  chain_row,          \* the row add_derived_fields is working on
  side,               \* the prefix of its next add_change_fields call
  mw_rows,            \* the list get_marketwatch_rows returned to the fallback adapter
  mw_args,            \* the adapter's arguments symbol and expiry
  mw_chain            \* what the adapter returned or raised, once it has run

\* What /api/ticker reads and writes, and no other handler.
tickerv == <<METALS_PROVIDER, METALS_API_KEY, TE_API_KEY, TE_CACHE, METALS_CACHE>>

\* The tail of option_chain (sort, window, pagination), run on its own.
pagev == <<entry_rows, chain_rows, underlying, query, stage, rows_payload>>

\* add_derived_fields on one row, run on its own.
derivedv == <<chain_row, side>>

\* fetch_mcx_option_chain_from_marketwatch on one snapshot, run on its own.
adapterv == <<mw_rows, mw_args, mw_chain>>

vars == <<now, APP_TOKEN, feed, workload, CACHE, NSE_CACHE, MARKETWATCH_CACHE,
          pc, req, tnow, snow, lcached, lrows, ucalls, out, tickerv, pagev, derivedv, adapterv>>

caches == <<CACHE, NSE_CACHE, MARKETWATCH_CACHE>>

\* What is fixed when the process starts and what the upstreams hold, with
\* everything else the option-chain handlers never touch.
env == <<APP_TOKEN, feed, workload, tickerv, pagev, derivedv, adapterv>>

\* What an upstream option-chain endpoint answers to a call made at time t:
\* a well-formed record whose strike moves with the market, then the feed.
Payloads(t) == { <<Record(10000 + 5000 * t)>> \o feed }

\* What GetMarketWatch can answer to a call made at time t: [] (also a body
\* that does not decode), or a snapshot with records of GOLD and of others.
Snapshots(t) ==
  { << >>,
    << [Symbol |-> "GOLD", StrikePrice |-> 15000 + 5000 * t],
       [Symbol |-> "SILVER", StrikePrice |-> 5000],
       [Symbol |-> "GOLD", StrikePrice |-> 10000] >> }

\* ------------------------------------------------------------ values
NoReq == [ep |-> None, symbol |-> None, expiry |-> "", strike_step |-> NoStep, step |-> 0,
          all_strikes |-> FALSE, force |-> FALSE,
          token |-> "", x_api_token |-> ""]

NoSnap == [items |-> << >>, src_at |-> -1]

NoRows == [rows |-> << >>, src_at |-> -1]

NoOut == [r |-> None, req |-> NoReq, status |-> 0, err |-> None, rows |-> << >>,
          fetched_at |-> -1, count |-> -1, calls |-> 0, source |-> None]

\* What a function of the pipeline returns or raises.
Returns(rows) == [err |-> None, rows |-> rows]
Raises(err) == [err |-> err, rows |-> << >>]

\* ------------------------------------------------------ pure helpers
RECURSIVE SortedSeq(_)
SortedSeq(S) ==
  IF S = {} THEN << >>
  ELSE LET m == CHOOSE x \in S : \A y \in S : x <= y
       IN <<m>> \o SortedSeq(S \ {m})

\* parse_nse_expiry: None, the date (written as format_nse_expiry writes
\* it), or the ValueError of datetime(year, month, day) on a dd-mm-yyyy text
\* that is no date of the calendar.
parse_nse_expiry(value) ==
  CASE value = "" -> None
    [] value = "27-11-2026" -> "27-Nov-2026"
    [] value = "24-12-2026" -> "24-Dec-2026"
    [] value = "31-02-2026" -> "ValueError"
    [] value = "27-Nov-2026" -> "27-Nov-2026"
    [] OTHER -> None

\* normalize_nse_expiry
normalize_nse_expiry(value) ==
  IF value = "" THEN None
  ELSE LET parsed == parse_nse_expiry(value)
       IN IF parsed # None THEN parsed ELSE value

\* nse_record_to_row: `key in side` raises TypeError on a number; on a
\* mapping, on {} (CE absent or falsy) and on text it answers.
nse_record_to_row(item) ==
  IF item.CE = "number" THEN Raises("TypeError")
  ELSE Returns(<<item.strikePrice>>)

\* fetch_nse_option_chain on the data of a payload, first record first.
RECURSIVE nse_rows(_, _)
nse_rows(data, expiry_norm) ==
  IF data = << >> THEN Returns(<< >>)
  ELSE LET item == Head(data)
           item_norm == normalize_nse_expiry(item.expiryDates)
           rest == nse_rows(Tail(data), expiry_norm)
       IN IF item.kind # "map" THEN rest
          ELSE IF expiry_norm # None /\ item_norm = "ValueError" THEN Raises("ValueError")
          ELSE IF expiry_norm # None /\ item_norm # expiry_norm THEN rest
          ELSE LET row == nse_record_to_row(item)
               IN IF row.err # None THEN row
                  ELSE IF rest.err # None THEN rest
                  ELSE Returns(row.rows \o rest.rows)

\* get_nse_expiries on the data of a payload: parse_nse_expiry of every
\* mapping's expiryDates.
nse_expiries(data) ==
  IF \E i \in 1..Len(data) :
       data[i].kind = "map" /\ parse_nse_expiry(data[i].expiryDates) = "ValueError"
  THEN Raises("ValueError")
  ELSE Returns(<< >>)

\* normalize_rows on the rows of an MCX payload: mappings only.
RECURSIVE normalize_rows(_)
normalize_rows(rows) ==
  IF rows = << >> THEN << >>
  ELSE IF Head(rows).kind # "map" THEN normalize_rows(Tail(rows))
  ELSE <<Head(rows).strikePrice>> \o normalize_rows(Tail(rows))

\* A round-strike test without the tolerance: exact multiples only.
C14_is_round_strike_exact(value, step) ==
  IF value.t = "text" THEN "False"
  ELSE IF step <= 0 THEN "True"
  ELSE IF value.t = "nan" THEN "ValueError"
  ELSE IF value.t = "inf" THEN "OverflowError"
  ELSE IF Thousandths(value) % (1000 * step) = 0 THEN "True" ELSE "False"

\* is_round_strike: "True", "False", or what round(quotient) raises.
\* abs(quotient - round(quotient)) < 1e-6, with `off` the distance of the
\* strike from the nearest multiple of step, in thousandths.  (A strike at
\* exactly step * 1e-6 from a multiple is decided by float rounding; no
\* strike of the inputs is there.)
is_round_strike(value, step) ==
  IF value.t = "text" THEN "False"
  ELSE IF step <= 0 THEN "True"
  ELSE IF value.t = "nan" THEN "ValueError"
  ELSE IF value.t = "inf" THEN "OverflowError"
  ELSE LET unit == 1000 * step
           over == Thousandths(value) % unit
           off == IF over <= unit - over THEN over ELSE unit - over
       IN IF off < step /\ 1000 * off < step THEN "True" ELSE "False"

\* [row for row in rows if is_round_strike(row.get("CE_StrikePrice"), strike_step)]
RECURSIVE round_strike_rows(_, _)
round_strike_rows(rows, step) ==
  IF rows = << >> THEN Returns(<< >>)
  ELSE LET keep == is_round_strike(Head(rows), step)
           rest == round_strike_rows(Tail(rows), step)
       IN IF keep \notin {"True", "False"} THEN Raises(keep)
          ELSE IF rest.err # None THEN rest
          ELSE Returns((IF keep = "True" THEN <<Head(rows)>> ELSE << >>) \o rest.rows)

\* The tail of get_cached_rows: add_derived_fields keeps the strike, then
\* the round-strike filter unless all_strikes.
derive_and_filter(rows, step, all_strikes) ==
  IF all_strikes THEN Returns(rows) ELSE round_strike_rows(rows, step)

\* fetch_mcx_option_chain_from_marketwatch on a snapshot: the records of
\* the symbol grouped by strike, emitted by ascending strike.
RECURSIVE NumSeq(_)
NumSeq(s) == IF s = << >> THEN << >> ELSE <<Num(Head(s))>> \o NumSeq(Tail(s))

fallback_rows(items, symbol) ==
  NumSeq(SortedSeq({ items[i].StrikePrice :
                     i \in { j \in 1..Len(items) : items[j].Symbol = symbol } }))

\* A token check that passes when either of the two tokens is the secret.
C7_check_token_either(token, header_token) ==
  APP_TOKEN = "" \/ token = APP_TOKEN \/ header_token = APP_TOKEN

\* check_token: TRUE when the request passes.
check_token(token, header_token) ==
  IF APP_TOKEN = "" THEN TRUE
  ELSE LET supplied == IF token # "" THEN token ELSE header_token
       IN supplied = APP_TOKEN

\* Symbol and source checks without the 501 of option_chain and refresh.
C6_symbol_check_no501(ep, symbol) ==
  IF symbol \notin DOMAIN Config THEN 404 ELSE 0

\* The status the symbol and source checks of an endpoint raise, 0 if none:
\* 404 for a symbol without configuration; 501, in option_chain and refresh,
\* for a source that is neither mcx nor nse.
symbol_check(ep, symbol) ==
  IF symbol \notin DOMAIN Config THEN 404
  ELSE IF ep # "expiries" /\ Config[symbol] \notin {"mcx", "nse"} THEN 501
  ELSE 0

\* step = DEFAULT_STRIKE_STEP if strike_step is None else strike_step
effective_step(strike_step) ==
  IF strike_step = NoStep THEN DEFAULT_STRIKE_STEP ELSE strike_step

\* A freshness test under which an entry is still live at the age of TTL.
C1_is_live_le(fetched_at, now_) == now_ - fetched_at <= CACHE_TTL_SECONDS

\* The freshness test of get_cached_rows and get_nse_payload.
is_live(fetched_at, now_) == now_ - fetched_at < CACHE_TTL_SECONDS

\* cache_key of get_cached_rows.
cache_key(source, symbol, expiry, strike_step, all_strikes) ==
  <<source, symbol, expiry, strike_step, all_strikes>>

\* cache_key of get_nse_payload ("EXPIRIES" when no expiry is given).
nse_cache_key(symbol, expiry) ==
  <<symbol, IF expiry = "" THEN "EXPIRIES" ELSE normalize_nse_expiry(expiry)>>

KeyOf(q) == cache_key(Config[q.symbol], q.symbol, q.expiry, q.step, q.all_strikes)

\* dict assignment d[k] = v
Put(d, k, v) == [x \in DOMAIN d \cup {k} |-> IF x = k THEN v ELSE d[x]]

\* ------------------------------------------------------------- Init
\* The state once the module is imported: empty caches, idle threads; then
\* the environment, drawn from the given secrets, NSE record lists and
\* workloads.
Handlers0 ==
  /\ now = 0
  /\ CACHE = << >>
  /\ NSE_CACHE = << >>
  /\ MARKETWATCH_CACHE = << >>
  /\ pc = [r \in Threads |-> "idle"]
  /\ req = [r \in Threads |-> NoReq]
  /\ tnow = [r \in Threads |-> 0]
  /\ snow = [r \in Threads |-> 0]
  /\ lcached = [r \in Threads |-> NoSnap]
  /\ lrows = [r \in Threads |-> NoRows]
  /\ ucalls = [r \in Threads |-> 0]
  /\ out = NoOut
  /\ TE_CACHE = << >>
  /\ METALS_CACHE = << >>

\* No ticker provider key is configured.
NoTicker ==
  /\ METALS_PROVIDER = "auto"
  /\ METALS_API_KEY = ""
  /\ TE_API_KEY = ""

\* No response is being put together.
NoQuery == [mode |-> None, window |-> -1, offset |-> -1, limit |-> -1]

NoPage ==
  /\ entry_rows = << >>
  /\ chain_rows = << >>
  /\ underlying = [t |-> "none", v |-> 0]
  /\ query = NoQuery
  /\ stage = "idle"
  /\ rows_payload = << >>

\* No row is being derived.
NoDerived ==
  /\ chain_row = << >>
  /\ side = None

\* The adapter is not running.
NoArgs == [symbol |-> None, expiry |-> None]

NotRun == [err |-> "not run", rows |-> << >>]

NoAdapter ==
  /\ mw_rows = << >>
  /\ mw_args = NoArgs
  /\ mw_chain = NotRun

Boot(secrets, feeds, workloads) ==
  /\ APP_TOKEN \in secrets
  /\ feed \in feeds
  /\ workload \in workloads
  /\ NoTicker
  /\ NoPage
  /\ NoDerived
  /\ NoAdapter
  /\ Handlers0

Init == Boot({""}, {CleanFeed}, {"any"})

\* ---------------------------------------------------------- responses
\* strike_key(a) < strike_key(b): the key is float(strike), float("inf") for
\* a strike that float() rejects; 'inf' is that same key, and no comparison
\* with a NaN key is true.
StrikeLess(a, b) ==
  /\ Finite(a)
  /\ b.t # "nan"
  /\ ~Finite(b) \/ Thousandths(a) < Thousandths(b)

Reverse(s) == [i \in 1..Len(s) |-> s[Len(s) + 1 - i]]

\* sorted(rows, key=strike_key) as CPython sorts a list of fewer than 64
\* items: the initial run (reversed when strictly descending), then binary
\* insertion of each further item, after the items that are not greater.
\* With keys that a total order compares this is the stable ascending sort.
CountRun(s) ==
  LET n == Len(s)
      desc == StrikeLess(s[2], s[1])
      goes(i) == StrikeLess(s[i], s[i - 1]) <=> desc
  IN CHOOSE k \in 2..n :
       /\ \A i \in 3..k : goes(i)
       /\ k = n \/ ~goes(k + 1)

\* The index after which the pivot goes, in the sorted s[lo+1 .. hi].
RECURSIVE BinarySearch(_, _, _, _)
BinarySearch(s, pivot, lo, hi) ==
  IF lo >= hi THEN lo
  ELSE LET mid == lo + ((hi - lo) \div 2)
       IN IF StrikeLess(pivot, s[mid + 1]) THEN BinarySearch(s, pivot, lo, mid)
          ELSE BinarySearch(s, pivot, mid + 1, hi)

\* s with its first `done` items sorted: the others inserted one by one.
RECURSIVE BinarySort(_, _)
BinarySort(s, done) ==
  IF done >= Len(s) THEN s
  ELSE LET pivot == s[done + 1]
           at == BinarySearch(s, pivot, 0, done)
       IN BinarySort(SubSeq(s, 1, at) \o <<pivot>> \o SubSeq(s, at + 1, done)
                       \o SubSeq(s, done + 2, Len(s)),
                     done + 1)

sort_rows_by_strike(rows) ==
  IF Len(rows) < 2 THEN rows
  ELSE LET run == CountRun(rows)
           first == IF StrikeLess(rows[2], rows[1])
                    THEN Reverse(SubSeq(rows, 1, run)) ELSE SubSeq(rows, 1, run)
       IN BinarySort(first \o SubSeq(rows, run + 1, Len(rows)), run)

\* get_underlying_value found no value on any row.
NoUnderlying == [t |-> "none", v |-> 0]

\* abs(strikes[i] - underlying), as a key: infinite for a strike that
\* float() rejects and for 'inf', NaN for 'nan'.
Distance(strike, und) ==
  IF Finite(strike)
  THEN LET a == Thousandths(strike)
           b == Thousandths(und)
       IN Dec(IF a >= b THEN a - b ELSE b - a)
  ELSE IF strike.t = "nan" THEN strike
  ELSE [t |-> "inf", v |-> 0]

\* min(range(len(strikes)), key=...): the first index no later one is less than.
RECURSIVE MinIndex(_, _, _, _)
MinIndex(rows, und, best, i) ==
  IF i > Len(rows) THEN best
  ELSE IF StrikeLess(Distance(rows[i], und), Distance(rows[best], und))
  THEN MinIndex(rows, und, i, i + 1)
  ELSE MinIndex(rows, und, best, i + 1)

Max(a, b) == IF a >= b THEN a ELSE b
Min(a, b) == IF a <= b THEN a ELSE b

\* rows[start:end] of Python, start >= 0 (indices from 0, end excluded).
Slice(s, start, end) == SubSeq(s, start + 1, Min(end, Len(s)))

\* A window whose nearest row is the last of those at the least distance.
C16_filter_atm_window_last(rows, und, window) ==
  IF und = NoUnderlying \/ rows = << >> THEN rows
  ELSE LET first == MinIndex(rows, und, 1, 2)
           closest_idx ==
             (CHOOSE i \in 1..Len(rows) :
                /\ Distance(rows[i], und) = Distance(rows[first], und)
                /\ \A j \in (i + 1)..Len(rows) :
                     Distance(rows[j], und) # Distance(rows[first], und)) - 1
       IN Slice(rows, Max(0, closest_idx - window), closest_idx + window + 1)

filter_atm_window(rows, und, window) ==
  IF und = NoUnderlying \/ rows = << >> THEN rows
  ELSE LET closest_idx == MinIndex(rows, und, 1, 2) - 1
       IN Slice(rows, Max(0, closest_idx - window), closest_idx + window + 1)

\* limit, offset, window: Optional[int] = Query(None, ge=...): the absent value.
NoInt == -1

\* A pagination that takes limit for the index where the slice ends.
C17_apply_offset_limit_end(rows, offset, limit) ==
  LET start == IF offset = NoInt THEN 0 ELSE Max(0, offset)
  IN IF limit = NoInt THEN Slice(rows, start, Len(rows))
     ELSE Slice(rows, start, limit)

apply_offset_limit(rows, offset, limit) ==
  LET start == IF offset = NoInt THEN 0 ELSE Max(0, offset)
  IN IF limit = NoInt THEN Slice(rows, start, Len(rows))
     ELSE Slice(rows, start, start + limit)

\* The rows a 200 response carries: option_chain sorts what get_cached_rows
\* returned (no window, no pagination requested); refresh counts it as it is.
ResponseRows(q, rows) ==
  IF q.ep = "option_chain" THEN sort_rows_by_strike(rows) ELSE rows

\* The handler is left with the response o: the thread is free again.
Answer(r, o) ==
  /\ out' = o
  /\ pc' = [pc EXCEPT ![r] = "idle"]
  /\ req' = [req EXCEPT ![r] = NoReq]
  /\ tnow' = [tnow EXCEPT ![r] = 0]
  /\ snow' = [snow EXCEPT ![r] = 0]
  /\ lcached' = [lcached EXCEPT ![r] = NoSnap]
  /\ lrows' = [lrows EXCEPT ![r] = NoRows]
  /\ ucalls' = [ucalls EXCEPT ![r] = 0]

\* The handler returns, or raises HTTPException(status).
Respond(r, q, status, rows, fetched_at, calls) ==
  Answer(r, [r |-> r, req |-> q, status |-> status, err |-> None, rows |-> rows,
             fetched_at |-> fetched_at, count |-> Len(rows), calls |-> calls,
             source |-> None])

\* An exception of type err that no handler catches: FastAPI answers 500.
Raise500(r, err, calls) ==
  Answer(r, [r |-> r, req |-> req[r], status |-> 500, err |-> err, rows |-> << >>,
             fetched_at |-> -1, count |-> 0, calls |-> calls, source |-> None])

\* The request goes on at `label`.
Goto(r, label) ==
  /\ pc' = [pc EXCEPT ![r] = label]
  /\ out' = NoOut

\* ------------------------------------------------------------ actions
\* The handler's entry, up to its first cache access: check_token,
\* load_config, the symbol and source checks, and for option_chain and
\* refresh the cache lookup of get_cached_rows.
Start(r, ep, rawsym, strike_step, all_strikes, force0, token, x_api_token) ==
  /\ pc[r] = "idle"
  /\ LET symbol == UpperStrip(rawsym)
         chain == ep \in {"option_chain", "refresh"}
         q == [ep |-> ep, symbol |-> symbol,
               expiry |-> IF chain THEN Expiry1 ELSE "",
               strike_step |-> strike_step,
               step |-> IF chain THEN effective_step(strike_step) ELSE 0,
               all_strikes |-> all_strikes,
               force |-> IF ep = "refresh" THEN TRUE ELSE force0,
               token |-> token, x_api_token |-> x_api_token]
         answer(status) ==
           /\ Respond(r, q, status, << >>, -1, 0)
           /\ UNCHANGED <<now, env, caches>>
         goto(label) ==
           /\ Goto(r, label)
           /\ req' = [req EXCEPT ![r] = q]
           /\ UNCHANGED <<now, env, caches, snow, lcached, lrows, ucalls>>
     IN
     IF ep = "health" THEN answer(200)
     ELSE IF ~check_token(token, x_api_token) THEN answer(401)
     ELSE IF ep = "symbols" THEN answer(200)
     ELSE IF symbol_check(ep, symbol) # 0 THEN answer(symbol_check(ep, symbol))
     ELSE IF ep = "expiries" THEN
       CASE Config[symbol] = "mcx" -> goto("mw_get") /\ UNCHANGED tnow
         [] Config[symbol] = "nse" -> goto("nse_check") /\ UNCHANGED tnow
         [] OTHER -> answer(200)
     ELSE \* get_cached_rows
       LET key == KeyOf(q) IN
       IF /\ ~q.force
          /\ key \in DOMAIN CACHE
          /\ is_live(CACHE[key].fetched_at, now)
       THEN /\ Respond(r, q, 200, ResponseRows(q, CACHE[key].rows),
                       CACHE[key].fetched_at, 0)
            /\ UNCHANGED <<now, env, caches>>
       ELSE /\ goto(IF Config[symbol] = "mcx" THEN "mcx_fetch" ELSE "nse_check")
            /\ tnow' = [tnow EXCEPT ![r] = now]

\* The source's fetch has returned or raised after `calls` upstream calls:
\* what is left of get_cached_rows is add_derived_fields, the strike filter
\* and the store.
ToStore(r, fetched, src_at, calls) ==
  LET rows == IF fetched.err # None THEN fetched
              ELSE derive_and_filter(fetched.rows, req[r].step, req[r].all_strikes)
  IN IF rows.err # None THEN Raise500(r, rows.err, calls)
     ELSE /\ lrows' = [lrows EXCEPT ![r] = [rows |-> rows.rows, src_at |-> src_at]]
          /\ ucalls' = [ucalls EXCEPT ![r] = calls]
          /\ Goto(r, "store")
          /\ UNCHANGED <<req, tnow, snow, lcached>>

\* A store that stamps the entry with the time of the store, not with the
\* `now` that get_cached_rows took at its entry and returns.
C3_CacheStore_stamp(r) ==
  /\ pc[r] = "store"
  /\ CACHE' = Put(CACHE, KeyOf(req[r]),
                  [rows |-> lrows[r].rows, fetched_at |-> now,
                   src_at |-> lrows[r].src_at, by |-> req[r].ep])
  /\ Respond(r, req[r], 200, ResponseRows(req[r], lrows[r].rows), tnow[r], ucalls[r])
  /\ UNCHANGED <<now, env, NSE_CACHE, MARKETWATCH_CACHE>>

\* A store that keeps the entry another request stored since this one began.
C5_CacheStore_keep(r) ==
  /\ pc[r] = "store"
  /\ CACHE' = IF /\ KeyOf(req[r]) \in DOMAIN CACHE
                 /\ CACHE[KeyOf(req[r])].fetched_at >= tnow[r]
              THEN CACHE
              ELSE Put(CACHE, KeyOf(req[r]),
                       [rows |-> lrows[r].rows, fetched_at |-> tnow[r],
                        src_at |-> lrows[r].src_at, by |-> req[r].ep])
  /\ Respond(r, req[r], 200, ResponseRows(req[r], lrows[r].rows), tnow[r], ucalls[r])
  /\ UNCHANGED <<now, env, NSE_CACHE, MARKETWATCH_CACHE>>

\* CACHE[cache_key] = {"rows": rows, "fetched_at": now}; return rows, now
CacheStore(r) ==
  /\ pc[r] = "store"
  /\ CACHE' = Put(CACHE, KeyOf(req[r]),
                  [rows |-> lrows[r].rows, fetched_at |-> tnow[r],
                   src_at |-> lrows[r].src_at, by |-> req[r].ep])
  /\ Respond(r, req[r], 200, ResponseRows(req[r], lrows[r].rows), tnow[r], ucalls[r])
  /\ UNCHANGED <<now, env, NSE_CACHE, MARKETWATCH_CACHE>>

\* fetch_mcx_option_chain: the GetOptionChain call answers 2xx (extract_rows,
\* then normalize_rows), or 401 or 403 (the market-watch fallback).
McxResponse(r) ==
  /\ pc[r] = "mcx_fetch"
  /\ UNCHANGED <<now, env, caches>>
  /\ \/ \E p \in Payloads(tnow[r]) :
          ToStore(r, Returns(normalize_rows(p)), tnow[r], ucalls[r] + 1)
     \/ /\ Goto(r, "mw_get")
        /\ ucalls' = [ucalls EXCEPT ![r] = @ + 1]
        /\ UNCHANGED <<req, tnow, snow, lcached, lrows>>

\* A failing fetch that also drops the entry of the key it was to refresh.
C23_McxError_evict(r) ==
  /\ pc[r] = "mcx_fetch"
  /\ Raise500(r, "HTTPError", ucalls[r] + 1)
  /\ CACHE' = [k \in DOMAIN CACHE \ {KeyOf(req[r])} |-> CACHE[k]]
  /\ UNCHANGED <<now, env, NSE_CACHE, MARKETWATCH_CACHE>>

\* fetch_mcx_option_chain: any other non-2xx status (raise_for_status, re-raised),
\* a connection error or a timeout.
McxError(r) ==
  /\ pc[r] = "mcx_fetch"
  /\ Raise500(r, "HTTPError", ucalls[r] + 1)
  /\ UNCHANGED <<now, env, caches>>

\* get_marketwatch_rows, first read: cached = MARKETWATCH_CACHE.get("rows")
MwGet(r) ==
  /\ pc[r] = "mw_get"
  /\ snow' = [snow EXCEPT ![r] = now]
  /\ lcached' = [lcached EXCEPT ![r] =
                   IF "rows" \in DOMAIN MARKETWATCH_CACHE
                   THEN MARKETWATCH_CACHE["rows"] ELSE NoSnap]
  /\ Goto(r, "mw_get2")
  /\ UNCHANGED <<now, env, caches, req, tnow, lrows, ucalls>>

\* A fallback whose empty result is returned to get_cached_rows like rows.
C9_MwContinue_empty(r, snap) ==
  IF req[r].ep = "expiries"
  THEN Respond(r, req[r], 200, << >>, -1, ucalls[r])
  ELSE ToStore(r, Returns(fallback_rows(snap.items, req[r].symbol)), snap.src_at, ucalls[r])

\* What follows get_marketwatch_rows: get_mcx_expiries answers /api/expiries;
\* fetch_mcx_option_chain returns the fallback rows to get_cached_rows, or
\* raises HTTPException(502) when there are none.
MwContinue(r, snap) ==
  IF req[r].ep = "expiries"
  THEN Respond(r, req[r], 200, << >>, -1, ucalls[r])
  ELSE LET fb == fallback_rows(snap.items, req[r].symbol) IN
       IF fb = << >>
       THEN Respond(r, req[r], 502, << >>, -1, ucalls[r])
       ELSE ToStore(r, Returns(fb), snap.src_at, ucalls[r])

\* get_marketwatch_rows, second read and the freshness test:
\* fetched_at = MARKETWATCH_CACHE.get("fetched_at", 0)
MwGet2(r) ==
  /\ pc[r] = "mw_get2"
  /\ UNCHANGED <<now, env, caches>>
  /\ LET fetched_at == IF "fetched_at" \in DOMAIN MARKETWATCH_CACHE
                       THEN MARKETWATCH_CACHE["fetched_at"] ELSE 0 - StartTime
     IN IF /\ lcached[r].items # << >>
           /\ snow[r] - fetched_at < MARKETWATCH_TTL_SECONDS
        THEN MwContinue(r, lcached[r])
        ELSE /\ Goto(r, "mw_fetch")
             /\ UNCHANGED <<req, tnow, snow, lcached, lrows, ucalls>>

\* fetch_mcx_marketwatch answers 2xx; MARKETWATCH_CACHE["rows"] = rows
MwResponse(r) ==
  /\ pc[r] = "mw_fetch"
  /\ \E s \in Snapshots(snow[r]) :
       LET snap == [items |-> s, src_at |-> snow[r]] IN
       /\ MARKETWATCH_CACHE' = Put(MARKETWATCH_CACHE, "rows", snap)
       /\ lcached' = [lcached EXCEPT ![r] = snap]
  /\ ucalls' = [ucalls EXCEPT ![r] = @ + 1]
  /\ Goto(r, "mw_put2")
  /\ UNCHANGED <<now, env, CACHE, NSE_CACHE, req, tnow, snow, lrows>>

\* fetch_mcx_marketwatch: a non-2xx status, a connection error or a timeout.
MwError(r) ==
  /\ pc[r] = "mw_fetch"
  /\ Raise500(r, "HTTPError", ucalls[r] + 1)
  /\ UNCHANGED <<now, env, caches>>

\* MARKETWATCH_CACHE["fetched_at"] = now; return rows
MwPut2(r) ==
  /\ pc[r] = "mw_put2"
  /\ MARKETWATCH_CACHE' = Put(MARKETWATCH_CACHE, "fetched_at", snow[r])
  /\ MwContinue(r, lcached[r])
  /\ UNCHANGED <<now, env, CACHE, NSE_CACHE>>

\* What follows get_nse_payload, after `calls` upstream calls:
\* get_nse_expiries answers /api/expiries; fetch_nse_option_chain turns the
\* records of the requested expiry into rows for get_cached_rows.
NseContinue(r, payload, src_at, calls) ==
  IF req[r].ep = "expiries"
  THEN IF nse_expiries(payload).err # None THEN Raise500(r, nse_expiries(payload).err, calls)
       ELSE Respond(r, req[r], 200, << >>, -1, calls)
  ELSE ToStore(r, nse_rows(payload, normalize_nse_expiry(req[r].expiry)), src_at, calls)

\* get_nse_payload: the lookup in NSE_CACHE.
NseCheck(r) ==
  /\ pc[r] = "nse_check"
  /\ UNCHANGED <<now, env, caches>>
  /\ LET k == nse_cache_key(req[r].symbol, req[r].expiry) IN
     IF /\ ~req[r].force
        /\ k \in DOMAIN NSE_CACHE
        /\ is_live(NSE_CACHE[k].fetched_at, now)
     THEN NseContinue(r, NSE_CACHE[k].payload, NSE_CACHE[k].src_at, ucalls[r])
     ELSE /\ snow' = [snow EXCEPT ![r] = now]
          /\ Goto(r, "nse_fetch")
          /\ UNCHANGED <<req, tnow, lcached, lrows, ucalls>>

\* fetch_nse_option_chain_raw answers 2xx;
\* NSE_CACHE[cache_key] = {"payload": payload, "fetched_at": now}
NseResponse(r) ==
  /\ pc[r] = "nse_fetch"
  /\ \E p \in Payloads(snow[r]) :
       /\ NSE_CACHE' = Put(NSE_CACHE, nse_cache_key(req[r].symbol, req[r].expiry),
                           [payload |-> p, fetched_at |-> snow[r], src_at |-> snow[r]])
       /\ NseContinue(r, p, snow[r], ucalls[r] + 1)
  /\ UNCHANGED <<now, env, CACHE, MARKETWATCH_CACHE>>

\* fetch_nse_option_chain_raw: a non-2xx status (raise_for_status), a
\* connection error or a timeout.
NseError(r) ==
  /\ pc[r] = "nse_fetch"
  /\ Raise500(r, "HTTPError", ucalls[r] + 1)
  /\ UNCHANGED <<now, env, caches>>

\* ------------------------------------------------------------ ticker
\* What the two ticker upstreams answer to a call made at time t.
\* build_metals_api_items always makes the two items Gold and Silver, with
\* "" (here -1) for a price whose rate is missing.
MetalsItems(t) ==
  { << [name |-> "Gold", symbol |-> "XAU", last |-> 2000 + t],
       [name |-> "Silver", symbol |-> "XAG", last |-> l] >> : l \in {25, -1} }

\* fetch_te_commodities: [] (also for a body that is no list), rows without
\* gold or silver, rows with them.
TeRows(t) ==
  { << >>,
    << [Name |-> "Crude Oil", Symbol |-> "CL1:COM", Last |-> 80 + t] >>,
    << [Name |-> "Silver", Symbol |-> "XAGUSD:CUR", Last |-> 25],
       [Name |-> "Crude Oil", Symbol |-> "CL1:COM", Last |-> 80],
       [Name |-> "Gold", Symbol |-> "XAUUSD:CUR", Last |-> 2000 + t] >> }

\* filter_te_metals: the gold and silver rows as items, sorted by name.
filter_te_metals(rows) ==
  LET item(name) ==
        LET i == CHOOSE j \in 1..Len(rows) : rows[j].Name = name
        IN [name |-> name, symbol |-> rows[i].Symbol, last |-> rows[i].Last]
      has(name) == \E j \in 1..Len(rows) : rows[j].Name = name
  IN (IF has("Gold") THEN <<item("Gold")>> ELSE << >>)
       \o (IF has("Silver") THEN <<item("Silver")>> ELSE << >>)

\* Where ticker goes: on to a provider's cache, or out with a status.
Route(label) == [goto |-> label, status |-> 0]
Fail(status) == [goto |-> "idle", status |-> status]

\* provider = METALS_PROVIDER or "auto"
ticker_provider == IF METALS_PROVIDER = "" THEN "auto" ELSE METALS_PROVIDER

\* The second block of ticker: TradingEconomics, or no provider at all.
ticker_te(provider) ==
  IF provider \in {"auto", "tradingeconomics", "te"}
  THEN IF TE_API_KEY = "" THEN Fail(503) ELSE Route("te_get")
  ELSE Fail(400)

\* A resolution that asks TradingEconomics first whenever its key is set.
C18_ticker_route_te_first(provider) ==
  IF provider \in {"auto", "tradingeconomics", "te"} /\ TE_API_KEY # ""
  THEN Route("te_get")
  ELSE IF provider \in {"auto", "metals_api", "metalsapi"} /\ METALS_API_KEY # ""
  THEN Route("metals_get")
  ELSE IF provider \in {"auto", "metals_api", "metalsapi", "tradingeconomics", "te"}
  THEN Fail(503)
  ELSE Fail(400)

\* The first block of ticker, up to the first cache access.
ticker_route(provider) ==
  IF provider \in {"auto", "metals_api", "metalsapi"}
  THEN IF METALS_API_KEY # "" THEN Route("metals_get")
       ELSE IF provider # "auto" THEN Fail(503)
       ELSE ticker_te(provider)
  ELSE ticker_te(provider)

\* return {"source": ..., "last_updated": ..., "items": items}
RespondFrom(r, source, items, fetched_at, calls) ==
  Answer(r, [r |-> r, req |-> req[r], status |-> 200, err |-> None, rows |-> items,
             fetched_at |-> fetched_at, count |-> Len(items), calls |-> calls,
             source |-> source])

\* The handler goes where `route` says.
Follow(r, q, route, calls) ==
  IF route.status # 0
  THEN Respond(r, q, route.status, << >>, -1, calls)
  ELSE /\ Goto(r, route.goto)
       /\ req' = [req EXCEPT ![r] = q]
       /\ ucalls' = [ucalls EXCEPT ![r] = calls]
       /\ UNCHANGED <<tnow, snow, lcached, lrows>>

\* ticker: check_token, then the provider's key.
TickerStart(r, token, x_api_token) ==
  /\ pc[r] = "idle"
  /\ LET q == [NoReq EXCEPT !.ep = "ticker", !.token = token,
                            !.x_api_token = x_api_token]
     IN IF ~check_token(token, x_api_token)
        THEN Respond(r, q, 401, << >>, -1, 0)
        ELSE Follow(r, q, ticker_route(ticker_provider), 0)
  /\ UNCHANGED <<now, env, caches>>

\* What follows get_metals_api_cached in ticker.
MetalsContinue(r, items, fetched_at, calls) ==
  IF items # << >> THEN RespondFrom(r, "metals_api", items, fetched_at, calls)
  ELSE IF ticker_provider # "auto" THEN Respond(r, req[r], 502, << >>, -1, calls)
  ELSE Follow(r, req[r], ticker_te(ticker_provider), calls)

\* get_metals_api_cached: the two reads of METALS_CACHE and the freshness test.
MetalsGet(r) ==
  /\ pc[r] = "metals_get"
  /\ LET cached == IF "items" \in DOMAIN METALS_CACHE THEN METALS_CACHE["items"] ELSE << >>
         fetched_at == IF "fetched_at" \in DOMAIN METALS_CACHE
                       THEN METALS_CACHE["fetched_at"] ELSE 0 - StartTime
     IN IF cached # << >> /\ now - fetched_at < METALS_API_CACHE_TTL_SECONDS
        THEN MetalsContinue(r, cached, fetched_at, ucalls[r])
        ELSE /\ Goto(r, "metals_fetch")
             /\ snow' = [snow EXCEPT ![r] = now]
             /\ UNCHANGED <<req, tnow, lcached, lrows, ucalls>>
  /\ UNCHANGED <<now, APP_TOKEN, feed, workload, caches, tickerv, pagev, derivedv, adapterv>>

\* fetch_metals_api_latest and the two fetch_metals_api_timeseries calls
\* answer; the items are built and METALS_CACHE is written.
MetalsResponse(r) ==
  /\ pc[r] = "metals_fetch"
  /\ \E items \in MetalsItems(snow[r]) :
       /\ METALS_CACHE' = Put(Put(METALS_CACHE, "items", items), "fetched_at", snow[r])
       /\ MetalsContinue(r, items, snow[r], ucalls[r] + 3)
  /\ UNCHANGED <<now, APP_TOKEN, feed, workload, caches, pagev, derivedv, adapterv,
                 METALS_PROVIDER, METALS_API_KEY, TE_API_KEY, TE_CACHE>>

\* fetch_metals_api_latest: the API reports success false (HTTPException 502),
\* or a call raises for a non-2xx status, a connection error or a timeout.
MetalsError(r) ==
  /\ pc[r] = "metals_fetch"
  /\ \/ Respond(r, req[r], 502, << >>, -1, ucalls[r] + 1)
     \/ Raise500(r, "HTTPError", ucalls[r] + 1)
  /\ UNCHANGED <<now, env, caches>>

\* What follows get_te_commodities_cached in ticker.
TeContinue(r, rows, fetched_at, calls) ==
  LET items == filter_te_metals(rows) IN
  IF items = << >> THEN Respond(r, req[r], 502, << >>, -1, calls)
  ELSE RespondFrom(r, "tradingeconomics", items, fetched_at, calls)

\* get_te_commodities_cached: the two reads of TE_CACHE and the freshness test.
TeGet(r) ==
  /\ pc[r] = "te_get"
  /\ LET cached == IF "rows" \in DOMAIN TE_CACHE THEN TE_CACHE["rows"] ELSE << >>
         fetched_at == IF "fetched_at" \in DOMAIN TE_CACHE
                       THEN TE_CACHE["fetched_at"] ELSE 0 - StartTime
     IN IF cached # << >> /\ now - fetched_at < TE_CACHE_TTL_SECONDS
        THEN TeContinue(r, cached, fetched_at, ucalls[r])
        ELSE /\ Goto(r, "te_fetch")
             /\ snow' = [snow EXCEPT ![r] = now]
             /\ UNCHANGED <<req, tnow, lcached, lrows, ucalls>>
  /\ UNCHANGED <<now, APP_TOKEN, feed, workload, caches, tickerv, pagev, derivedv, adapterv>>

\* fetch_te_commodities answers; TE_CACHE is written.
TeResponse(r) ==
  /\ pc[r] = "te_fetch"
  /\ \E rows \in TeRows(snow[r]) :
       /\ TE_CACHE' = Put(Put(TE_CACHE, "rows", rows), "fetched_at", snow[r])
       /\ TeContinue(r, rows, snow[r], ucalls[r] + 1)
  /\ UNCHANGED <<now, APP_TOKEN, feed, workload, caches, pagev, derivedv, adapterv,
                 METALS_PROVIDER, METALS_API_KEY, TE_API_KEY, METALS_CACHE>>

\* fetch_te_commodities: a non-2xx status, a connection error or a timeout.
TeError(r) ==
  /\ pc[r] = "te_fetch"
  /\ Raise500(r, "HTTPError", ucalls[r] + 1)
  /\ UNCHANGED <<now, env, caches>>

\* Time passes.
Tick ==
  /\ now < MaxTime
  /\ now' = now + 1
  /\ UNCHANGED <<env, caches, pc, req, tnow, snow, lcached, lrows, ucalls, out>>

\* ------------------------------------------- the tail of option_chain
\* Everything but the tail of option_chain stands still while it runs.
handlerv == <<now, APP_TOKEN, feed, workload, caches, pc, req, tnow, snow, lcached,
              lrows, ucalls, out, tickerv, derivedv, adapterv>>

\* A sort in place, rows.sort(key=strike_key), on the list the entry holds.
C24_SortRows_in_place ==
  /\ stage = "sort"
  /\ chain_rows' = sort_rows_by_strike(chain_rows)
  /\ entry_rows' = chain_rows'
  /\ stage' = "window"
  /\ UNCHANGED <<handlerv, underlying, query, rows_payload>>

\* rows = sort_rows_by_strike(rows)
SortRows ==
  /\ stage = "sort"
  /\ chain_rows' = sort_rows_by_strike(chain_rows)
  /\ stage' = "window"
  /\ UNCHANGED <<handlerv, entry_rows, underlying, query, rows_payload>>

\* if mode is None and window is not None: mode = "atm_window"
effective_mode(q) ==
  IF q.mode = None /\ q.window # NoInt THEN "atm_window" ELSE q.mode

\* if mode == "atm_window": rows = filter_atm_window(rows, underlying, window or 0)
AtmWindow ==
  /\ stage = "window"
  /\ chain_rows' = IF effective_mode(query) = "atm_window"
                   THEN filter_atm_window(chain_rows, underlying, Max(0, query.window))
                   ELSE chain_rows
  /\ stage' = "page"
  /\ UNCHANGED <<handlerv, entry_rows, underlying, query, rows_payload>>

\* rows = apply_offset_limit(rows, offset, limit); the payload's count is
\* the number of these rows.
OffsetLimit ==
  /\ stage = "page"
  /\ chain_rows' = apply_offset_limit(chain_rows, query.offset, query.limit)
  /\ stage' = "done"
  /\ UNCHANGED <<handlerv, entry_rows, underlying, query, rows_payload>>

\* The columns of a row that go out, the names they go out under, and the
\* names of the lite projection: the strike and the last traded price of
\* either side, of the 23, 23 and 11 names of the source.
OUTPUT_COLUMNS == <<"CE_LTP", "CE_StrikePrice", "PE_LTP">>
OUTPUT_HEADERS == <<"CALL_LTP", "Strike_Price", "PUT_LTP">>
LITE_MAP == [strike |-> "Strike_Price", ce_ltp |-> "CALL_LTP", pe_ltp |-> "PUT_LTP"]

\* row.get(key, ""): the rows of the tail have a strike and no other column.
Column(row, key) ==
  IF key = "CE_StrikePrice" THEN [t |-> row.t, v |-> row.v] ELSE ""

\* to_output_rows: for each row a new mapping from the output headers to the
\* values of the output columns.
to_output_rows(rows) ==
  [i \in 1..Len(rows) |->
     [h \in {OUTPUT_HEADERS[c] : c \in DOMAIN OUTPUT_HEADERS} |->
        Column(rows[i], OUTPUT_COLUMNS[CHOOSE c \in DOMAIN OUTPUT_HEADERS : OUTPUT_HEADERS[c] = h])]]

\* to_lite_rows: for each output row a new mapping under the lite names.
to_lite_rows(rows) ==
  [i \in 1..Len(rows) |-> [key \in DOMAIN LITE_MAP |-> rows[i][LITE_MAP[key]]]]

\* output_rows = to_output_rows(rows)
\* rows_payload = to_lite_rows(output_rows) if lite else output_rows
Project ==
  /\ stage = "done"
  /\ \E lite \in BOOLEAN :
       rows_payload' = IF lite THEN to_lite_rows(to_output_rows(chain_rows))
                       ELSE to_output_rows(chain_rows)
  /\ stage' = "sent"
  /\ UNCHANGED <<handlerv, entry_rows, chain_rows, underlying, query>>

\* ----------------------------------------------------- derived fields
\* The value of a field of a row: None (also a missing key, which row.get
\* reads as None), a number n / d in lowest terms, a string, or a value of
\* another type (a list, a mapping).
Null == [k |-> "none", s |-> "", n |-> 0, d |-> 1]
Str(s) == [k |-> "str", s |-> s, n |-> 0, d |-> 1]
Other == [k |-> "other", s |-> "", n |-> 0, d |-> 1]

RECURSIVE GCD(_, _)
GCD(a, b) == IF b = 0 THEN a ELSE GCD(b, a % b)

\* The float n / d.
Float(n, d) ==
  LET an == IF n < 0 THEN 0 - n ELSE n
      ad == IF d < 0 THEN 0 - d ELSE d
      g == GCD(an, ad)
      sn == IF d < 0 THEN 0 - n ELSE n
  IN [k |-> "num", s |-> "", n |-> sn \div g, d |-> ad \div g]

\* a - b, a / b (b not zero) and a * 100 on floats.
Sub(a, b) == Float(a.n * b.d - b.n * a.d, a.d * b.d)
Div(a, b) == Float(a.n * b.d, a.d * b.n)
Times100(a) == Float(a.n * 100, a.d)

\* value.strip(), cleaned.replace(",", "") and float(cleaned) on the strings
\* of the inputs; float raises ValueError (here Null) on "abc".
strip(s) ==
  CASE s = " 5 " -> "5"
    [] s = " " -> ""
    [] OTHER -> s

remove_commas(s) ==
  CASE s = "1,050" -> "1050"
    [] OTHER -> s

float(s) ==
  CASE s = "5" -> Float(5, 1)
    [] s = "0" -> Float(0, 1)
    [] s = "105" -> Float(105, 1)
    [] s = "1050" -> Float(1050, 1)
    [] s = "0.004" -> Float(4, 1000)
    [] OTHER -> Null

\* to_float: the float of a number or of a numeric string, else None.
to_float(value) ==
  IF value.k = "none" THEN Null
  ELSE IF value.k = "num" THEN value
  ELSE IF value.k = "str"
       THEN LET cleaned == strip(value.s)
            IN IF cleaned = "" THEN Null ELSE float(remove_commas(cleaned))
  ELSE Null

\* n / d (d > 0) rounded to the nearest integer, a tie to the even one.
RoundHalfEven(n, d) ==
  LET q == n \div d
      r == n % d
  IN IF 2 * r < d THEN q
     ELSE IF 2 * r > d THEN q + 1
     ELSE IF q % 2 = 0 THEN q ELSE q + 1

\* format_number(value, 2): "" for None, else round(value, 2).
format_number(value) ==
  IF value = Null THEN Str("")
  ELSE Float(RoundHalfEven(100 * value.n, value.d), 100)

\* The first of `keys` whose field of the side parses.
RECURSIVE FirstParsed(_, _, _)
FirstParsed(row, prefix, keys) ==
  IF keys = << >> THEN Null
  ELSE LET parsed == to_float(row[prefix][Head(keys)])
       IN IF parsed # Null THEN parsed ELSE FirstParsed(row, prefix, Tail(keys))

\* A lookup that tries PreviousClose before PrevClose.
C12_get_prev_close_value_swapped(row, prefix) ==
  FirstParsed(row, prefix,
              <<"PreviousClose", "PrevClose", "PrevClosePrice", "PreviousClosePrice">>)

get_prev_close_value(row, prefix) ==
  FirstParsed(row, prefix,
              <<"PrevClose", "PreviousClose", "PrevClosePrice", "PreviousClosePrice">>)

\* A percent change that prefers the LTP formula to AbsoluteChange.
C11_add_change_fields_ltp_first(row, prefix) ==
  LET ltp == to_float(row[prefix].LTP)
      abs_chg == to_float(row[prefix].AbsoluteChange)
      alias == get_prev_close_value(row, prefix)
      prev_close == IF alias = Null /\ ltp # Null /\ abs_chg # Null
                    THEN Sub(ltp, abs_chg) ELSE alias
      pct_change ==
        IF prev_close # Null /\ prev_close.n # 0
        THEN IF ltp # Null THEN Times100(Div(Sub(ltp, prev_close), prev_close))
             ELSE IF abs_chg # Null THEN Times100(Div(abs_chg, prev_close))
             ELSE Null
        ELSE Null
  IN [row EXCEPT ![prefix] = [@ EXCEPT !.PrevClose = format_number(prev_close),
                                       !.PctChange = format_number(pct_change)]]

add_change_fields(row, prefix) ==
  LET ltp == to_float(row[prefix].LTP)
      abs_chg == to_float(row[prefix].AbsoluteChange)
      alias == get_prev_close_value(row, prefix)
      prev_close == IF alias = Null /\ ltp # Null /\ abs_chg # Null
                    THEN Sub(ltp, abs_chg) ELSE alias
      pct_change ==
        IF prev_close # Null /\ prev_close.n # 0
        THEN IF abs_chg # Null THEN Times100(Div(abs_chg, prev_close))
             ELSE IF ltp # Null THEN Times100(Div(Sub(ltp, prev_close), prev_close))
             ELSE Null
        ELSE Null
  IN [row EXCEPT ![prefix] = [@ EXCEPT !.PrevClose = format_number(prev_close),
                                       !.PctChange = format_number(pct_change)]]

\* add_derived_fields on a row: add_change_fields(row, "CE"), then
\* add_change_fields(row, "PE"); the row is then what get_cached_rows
\* filters and stores.
AddChangeFields ==
  /\ side \in {"CE", "PE"}
  /\ chain_row' = add_change_fields(chain_row, side)
  /\ side' = IF side = "CE" THEN "PE" ELSE "done"
  /\ UNCHANGED <<now, APP_TOKEN, feed, workload, caches, pc, req, tnow, snow, lcached,
                 lrows, ucalls, out, tickerv, pagev, adapterv>>

\* ------------------------------------------------- fallback adapter
\* A field of a row that no record has set.
NoField == -1

\* opt_type = (item.get("OptionType") or "").upper(): the text in capitals,
\* "" for None, and the AttributeError of a number, which has no upper().
OptionTypeUpper(value) ==
  CASE value = "ce" -> "CE"
    [] value = None -> ""
    [] value = "number" -> "AttributeError"
    [] OTHER -> value

\* float(strike) as a key of the dict `chain`: the number of a number or of
\* a numeric string, NaN, or the ValueError of other text.  A NaN is equal to
\* no key, itself apart: every record with a NaN strike makes the key of its
\* own, told apart here by the position of the record.
FloatKey(strike, position) ==
  IF strike.t \in {"num", "numstr"} THEN [t |-> "num", v |-> strike.v, id |-> 0]
  ELSE IF strike.t = "nan" THEN [t |-> "nan", v |-> 0, id |-> position]
  ELSE [t |-> "ValueError", v |-> 0, id |-> 0]

\* The index of the entry of `chain` with this key, 0 if there is none.
KeyIndex(chain, key) ==
  IF \E i \in 1..Len(chain) : chain[i].key = key
  THEN CHOOSE i \in 1..Len(chain) : chain[i].key = key
  ELSE 0

\* The body of the loop for the record at `position`: the dict after it
\* (its entries in the order of their insertion), or what it raises.
AdapterStep(chain, item, position, symbol, expiry) ==
  IF item.kind # "map" THEN Returns(chain)
  ELSE IF item.Symbol # symbol /\ item.ProductCode # symbol THEN Returns(chain)
  ELSE IF expiry # None /\ item.ExpiryDate # expiry THEN Returns(chain)
  ELSE LET opt_type == OptionTypeUpper(item.OptionType)
           strike == item.StrikePrice
           strike_key == FloatKey(strike, position)
           at == KeyIndex(chain, strike_key)
           entry == IF at = 0
                    THEN [key |-> strike_key, CE_StrikePrice |-> strike,
                          CE_LTP |-> NoField, PE_LTP |-> NoField]
                    ELSE chain[at]
           filled == IF opt_type = "CE" THEN [entry EXCEPT !.CE_LTP = item.LTP]
                     ELSE [entry EXCEPT !.PE_LTP = item.LTP]
       IN IF opt_type = "AttributeError" THEN Raises("AttributeError")
          ELSE IF opt_type \notin {"CE", "PE"} THEN Returns(chain)
          ELSE IF strike.t = "none" THEN Returns(chain)
          ELSE IF strike_key.t = "ValueError" THEN Returns(chain)
          ELSE IF at = 0 THEN Returns(Append(chain, filled))
          ELSE Returns([chain EXCEPT ![at] = filled])

\* for item in rows: ..., from the record at `position` on.
RECURSIVE AdapterLoop(_, _, _, _, _)
AdapterLoop(chain, rows, position, symbol, expiry) ==
  IF position > Len(rows) THEN Returns(chain)
  ELSE LET next == AdapterStep(chain, rows[position], position, symbol, expiry)
       IN IF next.err # None THEN next
          ELSE AdapterLoop(next.rows, rows, position + 1, symbol, expiry)

\* sorted_strikes = sorted(chain.keys());
\* return [chain[strike] for strike in sorted_strikes]
fetch_mcx_option_chain_from_marketwatch(rows, symbol, expiry) ==
  LET built == AdapterLoop(<< >>, rows, 1, UpperStrip(symbol), expiry)
      keys == [i \in 1..Len(built.rows) |-> built.rows[i].key]
      sorted_strikes == sort_rows_by_strike(keys)
      row(strike) ==
        LET entry == built.rows[KeyIndex(built.rows, strike)]
        IN [CE_StrikePrice |-> entry.CE_StrikePrice, CE_LTP |-> entry.CE_LTP,
            PE_LTP |-> entry.PE_LTP]
  IN IF built.err # None THEN built
     ELSE Returns([i \in 1..Len(sorted_strikes) |-> row(sorted_strikes[i])])

\* The adapter runs on the snapshot.
Adapt ==
  /\ mw_chain = NotRun
  /\ mw_args # NoArgs
  /\ mw_chain' = fetch_mcx_option_chain_from_marketwatch(mw_rows, mw_args.symbol,
                                                         mw_args.expiry)
  /\ UNCHANGED <<now, APP_TOKEN, feed, workload, caches, pc, req, tnow, snow, lcached,
                 lrows, ucalls, out, tickerv, pagev, derivedv, mw_rows, mw_args>>

\* ------------------------------------------------------------- inputs
\* The requests of a workload: <<endpoint, raw symbol, strike_step, force>>;
\* parameters an endpoint does not take stay at their defaults.
SeqRequests ==
  { <<"refresh", "GOLD", NoStep, FALSE>> }
    \cup { <<"refresh", "NIFTY", st, FALSE>> : st \in {NoStep, 100} }
    \cup { <<"option_chain", sym, NoStep, f>> : sym \in {"GOLD", " gold"}, f \in BOOLEAN }
    \cup { <<"option_chain", "NIFTY", st, f>> : st \in {NoStep, 100}, f \in BOOLEAN }

ConcRequests(source) ==
  { <<"option_chain", IF source = "mcx" THEN "GOLD" ELSE "NIFTY", NoStep, f>> :
      f \in BOOLEAN }

ApiRequests ==
  { <<ep, "GOLD", NoStep, FALSE>> : ep \in {"health", "symbols"} }
    \cup { <<ep, sym, NoStep, FALSE>> :
             ep \in {"expiries", "option_chain", "refresh"}, sym \in RawSymbols \ {"NIFTY"} }

RowsRequests ==
  { <<ep, sym, NoStep, FALSE>> : ep \in {"expiries", "option_chain"}, sym \in {"GOLD", "NIFTY"} }

\* A request arrives.
Arrive(r, Requests, Toks) ==
  \E rq \in Requests, token \in Toks, x_api_token \in Toks :
    Start(r, rq[1], rq[2], rq[3], FALSE, rq[4], token, x_api_token)

\* A step of an admitted request for a symbol of the MCX source.
McxStep(r) ==
  \/ McxResponse(r)
  \/ McxError(r)
  \/ MwGet(r)
  \/ MwGet2(r)
  \/ MwResponse(r)
  \/ MwError(r)
  \/ MwPut2(r)

\* A step of an admitted request for a symbol of the NSE source.
NseStep(r) ==
  \/ NseCheck(r)
  \/ NseResponse(r)
  \/ NseError(r)

\* One request at a time, well-formed payloads, no token configured.
Next ==
  \/ Tick
  \/ Arrive("t1", SeqRequests, {""})
  \/ CacheStore("t1")
  \/ McxStep("t1")
  \/ NseStep("t1")

Spec ==
  Init /\ [][Next]_vars

\* Requests in parallel on the thread pool.  The symbols requested in a run
\* are those of one source: requests for symbols of different sources share
\* no cache key.
ConcNext ==
  \/ Tick
  \/ \E r \in Threads :
       \/ Arrive(r, ConcRequests(workload), {""})
       \/ CacheStore(r)
       \/ workload = "mcx" /\ McxStep(r)
       \/ workload = "nse" /\ NseStep(r)

ConcInit == Boot({""}, {CleanFeed}, {"mcx", "nse"})

ConcSpec ==
  ConcInit
       /\ [][ConcNext]_vars

\* Every endpoint, with and without a configured token, for symbols of the
\* MCX source, of a source that is not implemented, and without configuration.
ApiNext ==
  \/ Tick
  \/ Arrive("t1", ApiRequests, Tokens)
  \/ CacheStore("t1")
  \/ McxStep("t1")

ApiInit == Boot({"", Secret}, {CleanFeed}, {"any"})

ApiSpec ==
  ApiInit
       /\ [][ApiNext]_vars

\* Payloads with records of every shape, requested within one second.
RowsNext ==
  \/ Arrive("t1", RowsRequests, {""})
  \/ CacheStore("t1")
  \/ McxStep("t1")
  \/ NseStep("t1")

RowsInit == Boot({""}, Feeds, {"any"})

RowsSpec ==
  RowsInit /\ [][RowsNext]_vars

\* Payloads whose records have strikes on a multiple of the step, off it by
\* 1, within and beyond the tolerance on either side, and strikes that are
\* no finite number; requested with each step and with and without
\* all_strikes.
FilterStrikes ==
  {Num(10000), Num(10001), Dec(10000004), Dec(10000006), Dec(9999996), Dec(9999994)}
    \cup StrikeValues

FilterFeeds == SeqsUpTo({ Record(5100) } \cup { [Record(5100) EXCEPT !.strikePrice = s] : s \in FilterStrikes }, MaxRecords)

FilterRequests ==
  { <<ep, sym, st, all>> :
      ep \in {"option_chain", "refresh"}, sym \in {"GOLD", "NIFTY"},
      st \in {NoStep, 0, 100}, all \in BOOLEAN }

\* The one request of a run arrives.
FilterArrive(r) ==
  /\ out = NoOut
  /\ \E rq \in FilterRequests : Start(r, rq[1], rq[2], rq[3], rq[4], FALSE, "", "")

FilterNext ==
  \/ FilterArrive("t1")
  \/ CacheStore("t1")
  \/ McxStep("t1")
  \/ NseStep("t1")

FilterInit == Boot({""}, FilterFeeds, {"any"})

FilterSpec ==
  FilterInit /\ [][FilterNext]_vars

\* add_derived_fields on one row.  One side of the row has its fields
\* drawn from numbers, numeric and other strings, null and other types; the
\* other side is one of three plain sides.
NoSide ==
  [LTP |-> Null, AbsoluteChange |-> Null, PrevClose |-> Null, PreviousClose |-> Null,
   PrevClosePrice |-> Null, PreviousClosePrice |-> Null, PctChange |-> Null]

PlainSides ==
  { NoSide,
    [NoSide EXCEPT !.LTP = Float(105, 1), !.AbsoluteChange = Float(5, 1)],
    [NoSide EXCEPT !.PrevClose = Float(4, 1000), !.AbsoluteChange = Float(1, 1)] }

RichSides ==
  [LTP : {Null, Float(105, 1), Str("105"), Str("abc"), Float(1004, 1000)},
   AbsoluteChange : {Null, Float(5, 1), Float(-5, 1), Float(1, 1), Float(105, 1),
                     Str(" 5 "), Str(""), Other},
   PrevClose : {Null, Float(100, 1), Float(0, 1), Str("0"), Float(4, 1000), Str("0.004"),
                Float(100456, 1000), Str("abc"), Str(" ")},
   PreviousClose : {Null, Float(200, 1), Str("1,050")},
   PrevClosePrice : {Null, Float(50, 1)},
   PreviousClosePrice : {Null, Float(25, 1), Other},
   PctChange : {Null, Float(9, 1)}]

DerivedInit ==
  /\ APP_TOKEN = "" /\ feed = CleanFeed /\ workload = "any"
  /\ NoTicker
  /\ NoPage
  /\ NoAdapter
  /\ Handlers0
  /\ side = "CE"
  /\ \/ chain_row \in [CE : RichSides, PE : PlainSides]
     \/ chain_row \in [CE : PlainSides, PE : RichSides]

DerivedNext ==
  AddChangeFields

DerivedSpec ==
  DerivedInit /\ [][DerivedNext]_vars

\* The fallback adapter on a snapshot.  The records: CE and PE records of
\* the symbol at two strikes; an option type in small letters, of another
\* kind, absent, and a number; strikes that are text, null, NaN and a numeric
\* string; a record that matches by ProductCode, one of another symbol, one
\* of another expiry, and one that is no mapping.  LTP is the position of
\* the record in the snapshot.
MwRecord ==
  [kind |-> "map", Symbol |-> "GOLD", ProductCode |-> "GOLDM", ExpiryDate |-> Expiry1,
   OptionType |-> "CE", StrikePrice |-> Num(100), LTP |-> 0]

MwShapes ==
  { [MwRecord EXCEPT !.OptionType = o] : o \in {"CE", "PE", "ce", "FUT", None, "number"} }
    \cup { [MwRecord EXCEPT !.OptionType = o, !.StrikePrice = Num(200)] : o \in {"CE", "PE"} }
    \cup { [MwRecord EXCEPT !.StrikePrice = k] :
             k \in {[t |-> "text", v |-> 0], [t |-> "none", v |-> 0], [t |-> "nan", v |-> 0]} }
    \cup { [MwRecord EXCEPT !.OptionType = "PE", !.StrikePrice = [t |-> "numstr", v |-> 100]],
           [MwRecord EXCEPT !.Symbol = "SILVER", !.ProductCode = "GOLD"],
           [MwRecord EXCEPT !.Symbol = "SILVER", !.ProductCode = "SILVER"],
           [MwRecord EXCEPT !.ExpiryDate = "24-Dec-2026"],
           [MwRecord EXCEPT !.kind = "text"] }

WithLTP(records) == [i \in 1..Len(records) |-> [records[i] EXCEPT !.LTP = i]]

AdapterInit ==
  /\ APP_TOKEN = "" /\ feed = CleanFeed /\ workload = "any"
  /\ NoTicker
  /\ NoPage
  /\ NoDerived
  /\ Handlers0
  /\ mw_rows \in { WithLTP(x) : x \in SeqsUpTo(MwShapes, MaxSnapshot) }
  /\ mw_args \in [symbol : {"GOLD", " gold"}, expiry : {None, Expiry1}]
  /\ mw_chain = NotRun

AdapterNext ==
  Adapt

AdapterSpec ==
  AdapterInit /\ [][AdapterNext]_vars

\* /api/ticker under every provider setting, with and without each key.
Providers == {"", "auto", "metals_api", "metalsapi", "tradingeconomics", "te", "gold_api"}

TickerNext ==
  \/ Tick
  \/ TickerStart("t1", "", "")
  \/ MetalsGet("t1")
  \/ MetalsResponse("t1")
  \/ MetalsError("t1")
  \/ TeGet("t1")
  \/ TeResponse("t1")
  \/ TeError("t1")

TickerInit ==
  /\ APP_TOKEN = "" /\ feed = CleanFeed /\ workload = "any"
  /\ METALS_PROVIDER \in Providers
  /\ METALS_API_KEY \in {"", "mkey"}
  /\ TE_API_KEY \in {"", "tekey"}
  /\ NoPage
  /\ NoDerived
  /\ NoAdapter
  /\ Handlers0

TickerSpec ==
  TickerInit /\ [][TickerNext]_vars

\* The rows of an entry: the strikes of `strikes`, each row knowing the place
\* it was fetched at.
RowsOf(strikes) ==
  [i \in 1..Len(strikes) |-> [t |-> strikes[i].t, v |-> strikes[i].v, id |-> i]]

\* Strikes of every kind float() tells apart.
AnyStrikes == {Num(100), Num(200), Num(300),
               [t |-> "text", v |-> 0], [t |-> "inf", v |-> 0], [t |-> "nan", v |-> 0]}

\* Strikes float() turns into finite numbers, and one it rejects.
PlainStrikes == {Num(100), Num(200), Num(300), Num(400), [t |-> "text", v |-> 0]}

\* The tail of option_chain on the rows of an entry: rows of every kind of
\* strike for a request without window and pagination; plain rows under
\* every mode, window and underlying; numeric rows under every pagination.
PageInit ==
  /\ APP_TOKEN = "" /\ feed = CleanFeed /\ workload = "any"
  /\ NoTicker
  /\ NoDerived
  /\ NoAdapter
  /\ Handlers0
  /\ stage = "sort"
  /\ \/ /\ entry_rows \in { RowsOf(x) : x \in SeqsUpTo(AnyStrikes, MaxRows) }
        /\ underlying = NoUnderlying
        /\ query = NoQuery
     \/ /\ entry_rows \in { RowsOf(x) : x \in SeqsUpTo(PlainStrikes, MaxRows) }
        /\ underlying \in {NoUnderlying, Num(290), Num(150), Num(50)}
        /\ query \in [mode : {None, "atm_window", "full"}, window : {NoInt, 0, 1},
                      offset : {NoInt}, limit : {NoInt}]
     \/ /\ entry_rows \in { RowsOf(x) : x \in SeqsUpTo({Num(100), Num(200), Num(300)}, MaxRows) }
        /\ underlying \in {NoUnderlying, Num(290)}
        /\ query \in [mode : {None}, window : {NoInt, 1},
                      offset : {NoInt, 0, 1, 2, MaxRows + 1}, limit : {NoInt, 1, 2}]
  /\ chain_rows = entry_rows
  /\ rows_payload = << >>

PageNext ==
  \/ SortRows
  \/ AtmWindow
  \/ OffsetLimit
  \/ Project

PageSpec ==
  PageInit /\ [][PageNext]_vars

\* ------------------------------------------------------- vocabulary
\* The words of the properties: what a step is, read off the two states.
ChainEndpoints == {"option_chain", "refresh"}

\* Thread r takes a request in (Start): either it answers at once, or the
\* request goes on to its source's fetch.
Arrival(r) ==
  /\ pc[r] = "idle"
  /\ now' = now
  /\ pc'[r] # "idle" \/ (out' # NoOut /\ out'.r = r)

\* The request that arrives in such a step.
Arrived(r) == IF pc'[r] # "idle" THEN req'[r] ELSE out'.req

\* The request of thread r, admitted earlier, is answered in this step.
Completion(r) == pc[r] # "idle" /\ pc'[r] = "idle"

\* A row-cache entry for key k that is live at time t.
LiveAt(k, t) == k \in DOMAIN CACHE /\ t - CACHE[k].fetched_at < CACHE_TTL_SECONDS

\* A raw NSE payload for the request q that is live at time t.
NseKey(q) == <<q.symbol, q.expiry>>
NseLiveAt(q, t) ==
  /\ NseKey(q) \in DOMAIN NSE_CACHE
  /\ t - NSE_CACHE[NseKey(q)].fetched_at < CACHE_TTL_SECONDS

\* The rows of s, as a bag.
RowBag(s) == [x \in { s[i] : i \in 1..Len(s) } |-> Cardinality({ i \in 1..Len(s) : s[i] = x })]

\* ---------------------------------------------------------------- C1
\* C1, as stated: a call of get_cached_rows with force=false that finds no
\* live entry for its key (so it runs its source's fetch) calls upstream.
C1_FetchIffMiss ==
  [][ \A r \in Threads :
        (Completion(r) /\ req[r].ep \in ChainEndpoints /\ ~req[r].force)
          => out'.calls >= 1 ]_vars

\* C1, amended.  With force=false: (hit) if a live entry exists for the key,
\* the call answers at once with the stored rows and the stored fetched_at,
\* makes no upstream call and changes no cache; (miss) otherwise, and only
\* then, it runs the source's fetch.  A miss of an MCX symbol always calls
\* upstream.  A miss of an NSE symbol calls upstream if and only if NSE_CACHE
\* holds no live raw payload for symbol and expiry; if it holds one, the rows
\* are built from that payload without any upstream call.  An entry stays as
\* it is until a request with its key stores again, so the force=false calls
\* with one key that follow a successful call within TTL make no upstream
\* call.
C1_HitOrMiss ==
  [][ \A r \in Threads :
        /\ (Arrival(r) /\ Arrived(r).ep \in ChainEndpoints) =>
             LET q == Arrived(r)
                 k == KeyOf(q)
             IN IF ~q.force /\ LiveAt(k, now)
                THEN /\ pc'[r] = "idle"
                     /\ out'.status = 200
                     /\ out'.calls = 0
                     /\ out'.fetched_at = CACHE[k].fetched_at
                     /\ RowBag(out'.rows) = RowBag(CACHE[k].rows)
                     /\ caches' = caches
                ELSE pc'[r] # "idle"
        /\ (Completion(r) /\ req[r].ep \in ChainEndpoints) =>
             /\ Config[req[r].symbol] = "mcx" => out'.calls >= 1
             /\ (Config[req[r].symbol] = "nse" /\ out'.calls = 0) =>
                  /\ ~req[r].force
                  /\ out'.status = 200
                  /\ NseKey(req[r]) \in DOMAIN NSE_CACHE
                  /\ NSE_CACHE[NseKey(req[r])].src_at = lrows[r].src_at
                  /\ tnow[r] - lrows[r].src_at < CACHE_TTL_SECONDS
        /\ (pc[r] = "nse_check" /\ pc'[r] # "nse_check"
              /\ req[r].ep \in ChainEndpoints) =>
             (pc'[r] = "nse_fetch" <=> (req[r].force \/ ~NseLiveAt(req[r], now)))
        /\ \A k \in DOMAIN CACHE :
             /\ k \in DOMAIN CACHE'
             /\ CACHE'[k] # CACHE[k] => (pc[r] # "store" \/ KeyOf(req[r]) = k) ]_vars

\* A force=false request is answered from an entry stored in an earlier second.
C1_Witness ==
  /\ out.status = 200
  /\ out.req.ep = "option_chain"
  /\ ~out.req.force
  /\ out.calls = 0
  /\ out.fetched_at < now
  /\ out.count > 0

\* ---------------------------------------------------------------- C2
\* C2, as stated: a call with force=true that succeeds has called upstream,
\* and stores under its key its own `now` and rows fetched by this call.
C2_ForcedIsNew ==
  [][ \A r \in Threads :
        (pc[r] = "store" /\ pc'[r] = "idle" /\ req[r].force) =>
          /\ out'.calls >= 1
          /\ CACHE'[KeyOf(req[r])].fetched_at = tnow[r]
          /\ CACHE'[KeyOf(req[r])].rows = lrows[r].rows
          /\ CACHE'[KeyOf(req[r])].src_at >= tnow[r]
          /\ Config[req[r].symbol] = "nse" =>
               /\ NseKey(req[r]) \in DOMAIN NSE_CACHE'
               /\ NSE_CACHE'[NseKey(req[r])].fetched_at >= tnow[r] ]_vars

C4_PairOfOneFetch ==
  [][ \A r \in Threads :
        (pc[r] = "mw_get2" /\ pc'[r] \notin {"mw_get2", "mw_fetch"}) =>
          /\ "fetched_at" \in DOMAIN MARKETWATCH_CACHE
          /\ MARKETWATCH_CACHE["fetched_at"] = lcached[r].src_at
          /\ snow[r] - lcached[r].src_at < MARKETWATCH_TTL_SECONDS ]_vars

\* ---------------------------------------------------------------- C5
\* C5, as stated: when two requests with the same key have both observed a
\* miss and neither has stored yet, each has issued its own upstream fetch.
C5_EachFetches ==
  \A r1, r2 \in Threads :
    ( /\ r1 # r2
      /\ pc[r1] = "store" /\ pc[r2] = "store"
      /\ ~req[r1].force /\ ~req[r2].force
      /\ KeyOf(req[r1]) = KeyOf(req[r2]) )
    => (ucalls[r1] >= 1 /\ ucalls[r2] >= 1)

\* C5, amended.  Concurrent requests for the same key are not deduplicated in
\* the row cache: every request that observed a miss runs its source's fetch,
\* stores its own result under the key, and the last store wins.  An MCX request always issues its own upstream
\* call.  An NSE request issues its own upstream call unless, when it looks,
\* NSE_CACHE holds a live raw payload (which another of the requests may
\* just have stored): then it builds its rows from that payload.
C5_OwnFetchOwnStore ==
  [][ \A r \in Threads :
        /\ (pc[r] = "store" /\ pc'[r] = "idle") =>
             /\ KeyOf(req[r]) \in DOMAIN CACHE'
             /\ CACHE'[KeyOf(req[r])].rows = lrows[r].rows
             /\ CACHE'[KeyOf(req[r])].fetched_at = tnow[r]
             /\ out'.r = r /\ out'.status = 200 /\ out'.fetched_at = tnow[r]
             /\ \/ ucalls[r] >= 1
                \/ /\ Config[req[r].symbol] = "nse"
                   /\ ~req[r].force
                   /\ tnow[r] - lrows[r].src_at < CACHE_TTL_SECONDS
        /\ (pc[r] = "nse_check" /\ pc'[r] # "nse_check") =>
             (pc'[r] = "nse_fetch" <=> (req[r].force \/ ~NseLiveAt(req[r], now))) ]_vars

\* Two requests with one key have both missed and both fetched from
\* upstream; neither has stored yet, and their results differ.
C5_Witness ==
  /\ pc["t1"] = "store" /\ pc["t2"] = "store"
  /\ ~req["t1"].force /\ ~req["t2"].force
  /\ KeyOf(req["t1"]) = KeyOf(req["t2"])
  /\ ucalls["t1"] >= 1 /\ ucalls["t2"] >= 1
  /\ lrows["t1"].rows # lrows["t2"].rows

\* ---------------------------------------------------------------- C8
\* C8, as stated: a request of /api/option-chain or /api/refresh whose
\* upstream call fails (a status that is not 2xx, nor 401/403 on the MCX
\* primary endpoint; a connection error; a timeout) is answered 502 or 504,
\* after one attempt of that call.
C8_UpstreamErrorIs50x ==
  [][ \A r \in Threads :
        ( /\ pc[r] \in {"mcx_fetch", "nse_fetch", "mw_fetch"}
          /\ pc'[r] = "idle"
          /\ req[r].ep \in ChainEndpoints
          /\ out'.err = "HTTPError" )
        => (out'.status \in {502, 504} /\ out'.calls = ucalls[r] + 1) ]_vars

SymbolEndpoints == {"expiries", "option_chain", "refresh"}

\* C6, as stated: a request to an endpoint that takes a symbol, not rejected
\* for its token, is answered 404 when the symbol is not configured and 501
\* when its source is neither mcx nor nse.
C6_404And501Everywhere ==
  (out.r # None /\ out.req.ep \in SymbolEndpoints /\ out.status # 401) =>
    /\ out.req.symbol = "ZINC" => out.status = 404
    /\ out.req.symbol = "SENSEX" => out.status = 501

\* C6, amended.  For a request that passes the token check: on /api/expiries,
\* /api/option-chain and /api/refresh a symbol absent from the configuration
\* yields 404; on /api/option-chain and /api/refresh a configured symbol
\* whose source is neither mcx nor nse yields 501; on /api/expiries such a
\* symbol yields 200 (the configured expiries).  Each of these answers is
\* given at once: no upstream call, no cache changed.  No other request is
\* answered 404 or 501.
C6_SymbolChecks ==
  [][ \A r \in Threads :
        ( /\ Arrival(r)
          /\ Arrived(r).ep \in SymbolEndpoints
          /\ ~(pc'[r] = "idle" /\ out'.status = 401) ) =>
          LET q == Arrived(r)
              at_once(status) ==
                /\ pc'[r] = "idle"
                /\ out'.status = status
                /\ out'.calls = 0
                /\ caches' = caches
          IN CASE q.symbol = "ZINC" -> at_once(404)
               [] q.symbol = "SENSEX" ->
                    IF q.ep = "expiries" THEN at_once(200) ELSE at_once(501)
               [] OTHER -> pc'[r] # "idle" \/ out'.status \notin {404, 501} ]_vars

\* With entries in the row cache and in the market-watch cache, /api/expiries
\* has answered 200 for the symbol of a source that is not implemented.
C6_Witness ==
  /\ out.req.ep = "expiries"
  /\ out.req.symbol = "SENSEX"
  /\ out.status = 200
  /\ CACHE # << >>
  /\ MARKETWATCH_CACHE # << >>

\* ---------------------------------------------------------------- C7
\* C7, as stated: with a non-empty secret a request is answered 401 exactly
\* when neither its query token nor its header token is the secret; with an
\* empty secret no request is answered 401.
C7_RejectedIffNeither ==
  out.r # None =>
    (out.status = 401 <=>
       /\ APP_TOKEN # ""
       /\ out.req.token # APP_TOKEN
       /\ out.req.x_api_token # APP_TOKEN)

\* C7, amended.  /api/health never checks a token.  On every other endpoint,
\* when a non-empty secret is configured, a request is rejected with 401
\* exactly when the token it supplies differs from the secret, where the
\* supplied token is the query token if that is non-empty and the header
\* token otherwise (a wrong query token is not saved by a right header).  The
\* rejection is the first thing the handler does: before the symbol is looked
\* up in the configuration, without upstream call and with no cache changed.
\* With an empty secret no request is rejected.
C7_TokenCheck ==
  [][ \A r \in Threads :
        Arrival(r) =>
          LET q == Arrived(r)
              supplied == IF q.token # "" THEN q.token ELSE q.x_api_token
              rejected == pc'[r] = "idle" /\ out'.status = 401
          IN /\ rejected <=> (q.ep # "health" /\ APP_TOKEN # "" /\ supplied # APP_TOKEN)
             /\ rejected => (out'.calls = 0 /\ caches' = caches) ]_vars

\* A request for a symbol that is not configured, with a wrong query token and
\* the right header token, is answered 401 (not 404), the caches being filled.
C7_Witness ==
  /\ out.status = 401
  /\ out.req.ep = "option_chain"
  /\ out.req.symbol = "ZINC"
  /\ out.req.token = "bad"
  /\ out.req.x_api_token = APP_TOKEN
  /\ CACHE # << >>

\* --------------------------------------------------------------- C10
\* C10, as stated: whatever shapes the records of a payload have, a call of
\* get_cached_rows whose upstream call is answered does not raise from the
\* row pipeline, and when it stores, the entry has the row of the payload's
\* well-formed record with a round strike.
C10_NoRecordFailsRequest ==
  (out.r # None /\ out.req.ep \in ChainEndpoints) =>
    /\ out.err \notin {"ValueError", "TypeError", "OverflowError"}
    /\ (out.status = 200 /\ out.calls >= 1 /\ CACHE[KeyOf(out.req)].src_at = out.fetched_at)
         => \E i \in 1..Len(out.rows) : out.rows[i] = Num(10000)

\* --------------------------------------------------------------- C20
\* C20, as stated: a forced request for an MCX symbol that has reached the
\* market-watch fallback (its primary call was answered 401 or 403) goes on
\* to fetch the snapshot from upstream, whatever MARKETWATCH_CACHE holds, and
\* the rows it then hands to the store come from a snapshot fetched by this
\* request.
C20_ForcedRefetchesSnapshot ==
  [][ \A r \in Threads :
        /\ ( /\ pc[r] = "mw_get2" /\ pc'[r] # "mw_get2"
             /\ req[r].ep \in ChainEndpoints
             /\ req[r].force )
           => pc'[r] = "mw_fetch"
        /\ ( /\ pc[r] \in {"mw_get2", "mw_put2"} /\ pc'[r] = "store"
             /\ req[r].force )
           => lrows'[r].src_at >= tnow[r] ]_vars

\* --------------------------------------------------------------- C19
\* C19, as stated: a call of get_marketwatch_rows made less than
\* MARKETWATCH_TTL_SECONDS after a completed fetch (rows and fetched_at both
\* written) makes no upstream call and returns the stored snapshot, whatever
\* the fetch returned.
C19_FreshSnapshotServed ==
  [][ \A r \in Threads :
        ( /\ pc[r] = "mw_get2" /\ pc'[r] # "mw_get2"
          /\ "rows" \in DOMAIN MARKETWATCH_CACHE
          /\ "fetched_at" \in DOMAIN MARKETWATCH_CACHE
          /\ MARKETWATCH_CACHE["rows"].src_at = MARKETWATCH_CACHE["fetched_at"]
          /\ lcached[r] = MARKETWATCH_CACHE["rows"]
          /\ snow[r] - MARKETWATCH_CACHE["fetched_at"] < MARKETWATCH_TTL_SECONDS )
        => pc'[r] # "mw_fetch" ]_vars

\* --------------------------------------------------------------- C18
MetalsNames == {"metals_api", "metalsapi"}
TeNames == {"tradingeconomics", "te"}

\* C18, as stated: with provider 'auto' and the TradingEconomics key
\* configured, a request whose metals_api fetch ends is either answered 200
\* from metals_api or goes on to TradingEconomics.
C18_AutoFallsBack ==
  [][ \A r \in Threads :
        ( /\ pc[r] = "metals_fetch" /\ pc'[r] # "metals_fetch"
          /\ ticker_provider = "auto"
          /\ TE_API_KEY # "" )
        => \/ pc'[r] = "idle" /\ out'.status = 200 /\ out'.source = "metals_api"
           \/ pc'[r] \in {"te_get", "te_fetch"} ]_vars

\* C18, amended.  An explicitly selected provider whose key is missing, and
\* 'auto' with neither key, yield 503 at once; a provider name that is not
\* known yields 400.  With 'auto', the request goes to metals_api whenever
\* the metals_api key is configured, and to tradingeconomics only when it is
\* not (and the tradingeconomics key is).  A request that went to metals_api
\* never goes on to tradingeconomics: it is answered 200 with source
\* 'metals_api' and the items held in METALS_CACHE, or, when its fetch fails,
\* 502 or 500.  A request that went to tradingeconomics is answered 200 with
\* source 'tradingeconomics' and the gold and silver rows of TE_CACHE, 502
\* when the rows in TE_CACHE (just fetched, or still fresh) have none, 500
\* when its fetch fails.
C18_ProviderResolution ==
  [][ \A r \in Threads :
        /\ (Arrival(r) /\ Arrived(r).ep = "ticker") =>
             LET p == ticker_provider
                 mk == METALS_API_KEY # ""
                 tk == TE_API_KEY # ""
                 at_once(status) ==
                   pc'[r] = "idle" /\ out'.status = status /\ out'.calls = 0
             IN CASE p \in MetalsNames ->
                       IF mk THEN pc'[r] = "metals_get" ELSE at_once(503)
                  [] p \in TeNames ->
                       IF tk THEN pc'[r] = "te_get" ELSE at_once(503)
                  [] p = "auto" ->
                       IF mk THEN pc'[r] = "metals_get"
                       ELSE IF tk THEN pc'[r] = "te_get"
                       ELSE at_once(503)
                  [] OTHER -> at_once(400)
        /\ (pc[r] \in {"metals_get", "metals_fetch"} /\ pc'[r] # pc[r]) =>
             /\ pc'[r] \in {"metals_fetch", "idle"}
             /\ TE_CACHE' = TE_CACHE
             /\ pc'[r] = "idle" =>
                  IF out'.status = 200
                  THEN /\ out'.source = "metals_api"
                       /\ out'.rows = METALS_CACHE'["items"]
                       /\ out'.rows # << >>
                  ELSE /\ out'.status \in {500, 502}
                       /\ pc[r] = "metals_fetch"
                       /\ out'.calls >= 1
                       /\ METALS_CACHE' = METALS_CACHE
        /\ (pc[r] \in {"te_get", "te_fetch"} /\ pc'[r] # pc[r]) =>
             /\ pc'[r] \in {"te_fetch", "idle"}
             /\ METALS_CACHE' = METALS_CACHE
             /\ pc'[r] = "idle" =>
                  CASE out'.status = 200 ->
                         /\ out'.source = "tradingeconomics"
                         /\ out'.rows = filter_te_metals(TE_CACHE'["rows"])
                         /\ out'.rows # << >>
                    [] out'.status = 502 ->
                         filter_te_metals(TE_CACHE'["rows"]) = << >>
                    [] out'.status = 500 ->
                         /\ pc[r] = "te_fetch"
                         /\ TE_CACHE' = TE_CACHE
                    [] OTHER -> FALSE ]_vars

\* With 'auto' and both keys configured, the metals_api fetch has failed: the
\* request is answered 502 and TradingEconomics was never asked.
C18_Witness ==
  /\ out.req.ep = "ticker"
  /\ METALS_PROVIDER = "auto"
  /\ METALS_API_KEY # "" /\ TE_API_KEY # ""
  /\ out.status = 502
  /\ out.calls >= 1
  /\ TE_CACHE = << >>

\* --------------------------------------------------------------- C15
\* C15, as stated: sort_rows_by_strike returns a permutation of its input in
\* which the numeric strikes ascend, every row whose strike float() rejects
\* comes after every row with a numeric strike, rows with equal strikes (and
\* the rejected ones among themselves) keep their input order; the input
\* list is not reordered.
C15_SortedByStrike ==
  [][ (stage = "sort" /\ stage' = "window") =>
        LET before == chain_rows
            after == chain_rows'
            n == Len(after)
        IN /\ Len(before) = n
           /\ { after[i] : i \in 1..n } = { before[i] : i \in 1..n }
           /\ entry_rows' = entry_rows
           /\ \A i, j \in 1..n :
                i < j =>
                  /\ (after[i].t = "num" /\ after[j].t = "num") => after[i].v <= after[j].v
                  /\ ~(after[i].t = "text" /\ after[j].t = "num")
                  /\ (after[i].t = after[j].t /\ after[i].v = after[j].v)
                       => after[i].id < after[j].id ]_vars

\* --------------------------------------------------------------- C16
\* Row a is strictly farther from the underlying than row b, a strike that
\* is no finite number being infinitely far.
Farther(a, b) ==
  /\ b.t = "num"
  /\ \/ a.t # "num"
     \/ Distance(a, underlying).v > Distance(b, underlying).v

\* Rows sorted by strike: the finite strikes ascending, then the others.
SortedByStrike(s) ==
  \A i, j \in 1..Len(s) :
    i < j => (s[j].t = "num" => (s[i].t = "num" /\ s[i].v <= s[j].v))

\* C16: when filter_atm_window is applied to rows sorted by strike: if the
\* underlying is unknown or there are no rows, the rows are returned as they
\* are; otherwise, with i the smallest index of a row nearest to the
\* underlying, the result is rows[max(0, i - window) .. min(n - 1, i + window)]:
\* it has row i, at most 2 * window + 1 rows, and for window 0 row i alone.
C16_NearestWindow ==
  [][ ( /\ stage = "window" /\ stage' = "page"
        /\ effective_mode(query) = "atm_window"
        /\ SortedByStrike(chain_rows) ) =>
        LET s == chain_rows
            n == Len(s)
            w == Max(0, query.window)
        IN IF underlying = NoUnderlying \/ n = 0
           THEN chain_rows' = s
           ELSE \E i \in 1..n :
                  /\ \A j \in 1..n : ~Farther(s[i], s[j])
                  /\ \A j \in 1..(i - 1) : Farther(s[j], s[i])
                  /\ chain_rows' = SubSeq(s, Max(1, i - w), Min(n, i + w))
                  /\ \E k \in 1..Len(chain_rows') : chain_rows'[k] = s[i]
                  /\ Len(chain_rows') <= 2 * w + 1
                  /\ w = 0 => chain_rows' = <<s[i]>> ]_vars

\* The rows 100, 200, 300, 400 with the underlying at 290 and window 1 have
\* been cut to 200, 300, 400.
C16_Witness ==
  /\ stage = "page"
  /\ underlying = Num(290)
  /\ query.window = 1
  /\ Len(entry_rows) = 4
  /\ Len(chain_rows) = 3
  /\ chain_rows[1].v = 200 /\ chain_rows[2].v = 300 /\ chain_rows[3].v = 400

\* --------------------------------------------------------------- C17
\* C17: apply_offset_limit returns the contiguous slice of its input that
\* starts at max(0, offset) (0 when offset is absent) and holds all the
\* remaining rows when limit is absent, else at most limit of them; in
\* option_chain it runs after the sort and after the window, on what they
\* left, and the response is made of that slice.
C17_PageOfWindow ==
  [][ /\ stage' # stage =>
           <<stage, stage'>> \in {<<"sort", "window">>, <<"window", "page">>,
                                  <<"page", "done">>, <<"done", "sent">>}
      /\ (stage' = stage \/ stage = "done") => chain_rows' = chain_rows
      /\ (stage = "page" /\ stage' = "done") =>
           LET start == IF query.offset = NoInt THEN 0 ELSE Max(0, query.offset)
               left == Max(0, Len(chain_rows) - start)
               len == IF query.limit = NoInt THEN left ELSE Min(query.limit, left)
           IN /\ Len(chain_rows') = len
              /\ \A j \in 1..len : chain_rows'[j] = chain_rows[start + j] ]_vars

\* Four rows, sorted and cut by window 1 around 290 to 200 and 300; offset 1
\* and limit 1 then leave the row 300 alone.
C17_Witness ==
  /\ stage = "done"
  /\ query = [mode |-> None, window |-> 1, offset |-> 1, limit |-> 1]
  /\ underlying = Num(290)
  /\ Len(entry_rows) = 4
  /\ entry_rows[1].v = 300 /\ entry_rows[4].v = 100
  /\ Len(chain_rows) = 1
  /\ chain_rows[1].v = 300 /\ chain_rows[1].id = 1

\* --------------------------------------------------------------- C14
\* float() accepts the strike.
Coerces(x) == x.t # "text"

\* strike / step is within 1e-6 of an integer k.
NearMultiple(x, step) ==
  /\ Finite(x)
  /\ \E k \in 0..(Thousandths(x) \div (1000 * step) + 1) :
       LET m == 1000 * k * step
           d == IF Thousandths(x) >= m THEN Thousandths(x) - m ELSE m - Thousandths(x)
       IN d < step /\ 1000 * d < step

PassesStrikeTest(x, step) ==
  Coerces(x) /\ (step > 0 => NearMultiple(x, step))

\* C14: the rows get_cached_rows is about to store are, with all_strikes,
\* all the fetched rows, and otherwise exactly the fetched rows whose strike
\* coerces to a number and, for a step > 0, has strike / step within 1e-6 of
\* an integer, in their fetched order; the entry stored holds these rows;
\* and every row of every entry whose key has all_strikes=false passes that
\* test for the step of the key.
C14_StrikeFilter ==
  [][ /\ \A r \in Threads :
           /\ (pc[r] \in {"mcx_fetch", "nse_fetch"} /\ pc'[r] = "store") =>
                LET q == req[r]
                    fetched ==
                      IF pc[r] = "mcx_fetch"
                      THEN normalize_rows(CHOOSE p \in Payloads(tnow[r]) : TRUE)
                      ELSE nse_rows(CHOOSE p \in Payloads(snow[r]) : TRUE,
                                    normalize_nse_expiry(q.expiry)).rows
                IN lrows'[r].rows =
                     IF q.all_strikes THEN fetched
                     ELSE SelectSeq(fetched, LAMBDA x : PassesStrikeTest(x, q.step))
           /\ (pc[r] = "store" /\ pc'[r] = "idle") =>
                /\ KeyOf(req[r]) \in DOMAIN CACHE'
                /\ CACHE'[KeyOf(req[r])].rows = lrows[r].rows
      /\ \A key \in DOMAIN CACHE' :
           key[5] = FALSE =>
             \A i \in 1..Len(CACHE'[key].rows) :
               PassesStrikeTest(CACHE'[key].rows[i], key[4]) ]_vars

\* Of the fetched strikes 10000, 10000.006 and 10000.004, the entry for the
\* default step 5000 holds 10000 and 10000.004.
C14_Witness ==
  /\ Len(feed) = 2
  /\ feed[1].strikePrice = Dec(10000006)
  /\ feed[2].strikePrice = Dec(10000004)
  /\ \E key \in DOMAIN CACHE :
       /\ key[2] = "GOLD" /\ key[4] = DEFAULT_STRIKE_STEP /\ key[5] = FALSE
       /\ CACHE[key].rows = <<Num(10000), Dec(10000004)>>

\* ---------------------------------------------------------- C11 - C13
\* The value of the first alias field of a side that coerces to a number,
\* in the order PrevClose, PreviousClose, PrevClosePrice, PreviousClosePrice.
FirstAlias(f) ==
  IF to_float(f.PrevClose) # Null THEN to_float(f.PrevClose)
  ELSE IF to_float(f.PreviousClose) # Null THEN to_float(f.PreviousClose)
  ELSE IF to_float(f.PrevClosePrice) # Null THEN to_float(f.PrevClosePrice)
  ELSE to_float(f.PreviousClosePrice)

\* The previous close of a side: from an alias, or derived as
\* LTP - AbsoluteChange when no alias coerces and both of these do, else absent.
PrevCloseOf(f) ==
  IF FirstAlias(f) # Null THEN FirstAlias(f)
  ELSE IF to_float(f.LTP) # Null /\ to_float(f.AbsoluteChange) # Null
       THEN Sub(to_float(f.LTP), to_float(f.AbsoluteChange))
  ELSE Null

\* add_change_fields has run on side p in this step.
SideDone(p) == side = p /\ side' # p

OtherSide(p) == IF p = "CE" THEN "PE" ELSE "CE"

\* C11: when add_change_fields has run on a side, with PrevClose the value
\* obtained from an alias or by derivation: if it is present and not zero,
\* the side's PctChange is AbsoluteChange / PrevClose * 100 when
\* AbsoluteChange coerces (whatever LTP is), else
\* (LTP - PrevClose) / PrevClose * 100 when LTP coerces, else ""; if it is
\* absent or zero, PctChange is "".  The number is rounded to 2 decimals,
\* and the fields of the other side are what they were.
C11_PctChange ==
  [][ \A p \in {"CE", "PE"} :
        SideDone(p) =>
          LET f == chain_row[p]
              prev == PrevCloseOf(f)
              abs_chg == to_float(f.AbsoluteChange)
              ltp == to_float(f.LTP)
          IN /\ chain_row'[p].PctChange =
                  IF prev = Null \/ prev.n = 0 THEN Str("")
                  ELSE IF abs_chg # Null
                       THEN format_number(Times100(Div(abs_chg, prev)))
                  ELSE IF ltp # Null
                       THEN format_number(Times100(Div(Sub(ltp, prev), prev)))
                  ELSE Str("")
             /\ chain_row'[OtherSide(p)] = chain_row[OtherSide(p)] ]_vars

\* LTP 105 with PrevClose 100 and AbsoluteChange -5 on the CE side gives
\* -5.0 (the LTP formula would give 5.0), next to a PE side with LTP 105 and
\* AbsoluteChange 5 that gives 5.0.
C11_Witness ==
  /\ side = "done"
  /\ chain_row.CE.LTP = Float(105, 1)
  /\ chain_row.CE.AbsoluteChange = Float(-5, 1)
  /\ chain_row.CE.PrevClose = Float(100, 1)
  /\ chain_row.CE.PctChange = Float(-5, 1)
  /\ chain_row.PE.LTP = Float(105, 1)
  /\ chain_row.PE.AbsoluteChange = Float(5, 1)
  /\ chain_row.PE.PrevClose = Float(100, 1)
  /\ chain_row.PE.PctChange = Float(5, 1)

\* C12, as stated: the stored PrevClose of a side is the first alias field
\* that coerces to a number; if none does and LTP and AbsoluteChange
\* coerce, it is LTP - AbsoluteChange; in every other case it is "".
C12_PrevCloseIsAlias ==
  [][ \A p \in {"CE", "PE"} :
        SideDone(p) =>
          chain_row'[p].PrevClose =
            IF PrevCloseOf(chain_row[p]) = Null THEN Str("")
            ELSE PrevCloseOf(chain_row[p]) ]_vars

\* C12, amended: the stored PrevClose of a side is, rounded to 2 decimals,
\* the first alias field that coerces to a number (numbers, and numeric
\* strings once stripped and rid of commas; null, empty and other text and
\* other types do not coerce); if none coerces and LTP and AbsoluteChange
\* both do, it is LTP - AbsoluteChange rounded to 2 decimals; in every other
\* case it is "".  An alias that coerces is never replaced by a derived
\* value.
C12_PrevCloseRounded ==
  [][ \A p \in {"CE", "PE"} :
        SideDone(p) =>
          LET f == chain_row[p]
              stored == chain_row'[p].PrevClose
          IN /\ stored = format_number(PrevCloseOf(f))
             /\ FirstAlias(f) # Null => stored = format_number(FirstAlias(f))
             /\ stored.k = "num" => stored.d \in {1, 2, 4, 5, 10, 20, 25, 50, 100}
             /\ stored = Str("") <=>
                  /\ FirstAlias(f) = Null
                  /\ to_float(f.LTP) = Null \/ to_float(f.AbsoluteChange) = Null ]_vars

\* On the CE side PrevClose is text that is no number and PreviousClose is
\* "1,050": the stored PrevClose is 1050, although PrevClosePrice is 50 and
\* LTP - AbsoluteChange is 100; on the PE side 0.004 has become 0.0.
C12_Witness ==
  /\ side = "done"
  /\ chain_row.CE.LTP = Float(105, 1)
  /\ chain_row.CE.AbsoluteChange = Float(5, 1)
  /\ chain_row.CE.PreviousClose = Str("1,050")
  /\ chain_row.CE.PrevClosePrice = Float(50, 1)
  /\ chain_row.CE.PrevClose = Float(1050, 1)
  /\ chain_row.CE.PctChange = Float(48, 100)
  /\ chain_row.PE.AbsoluteChange = Float(1, 1)
  /\ chain_row.PE.PrevClose = Float(0, 1)

\* C13, as stated: in a row as add_derived_fields leaves it to be stored,
\* on each side, a PrevClose field equal to 0 comes with a PctChange field
\* that is "".
C13_ZeroPrevCloseNoPct ==
  side = "done" =>
    \A p \in {"CE", "PE"} :
      chain_row[p].PrevClose = Float(0, 1) => chain_row[p].PctChange = Str("")

\* --------------------------------------------------------------- C21
\* The record at position i of the snapshot passes the adapter's conditions:
\* a mapping of the requested symbol (by Symbol or ProductCode) and, when an
\* expiry is requested, of that expiry, of option type CE or PE, with a
\* strike that float() accepts.
Qualifies(i) ==
  LET item == mw_rows[i] IN
  /\ item.kind = "map"
  /\ item.Symbol = UpperStrip(mw_args.symbol) \/ item.ProductCode = UpperStrip(mw_args.symbol)
  /\ mw_args.expiry = None \/ item.ExpiryDate = mw_args.expiry
  /\ item.OptionType \in {"CE", "PE", "ce"}
  /\ item.StrikePrice.t \in {"num", "numstr", "nan"}

IsNumber(strike) == strike.t \in {"num", "numstr"}

\* The record at i is of type `opt` and of the strike of this row.
RecordOf(i, opt, row) ==
  /\ Qualifies(i)
  /\ OptionTypeUpper(mw_rows[i].OptionType) = opt
  /\ IF IsNumber(row.CE_StrikePrice)
     THEN IsNumber(mw_rows[i].StrikePrice) /\ mw_rows[i].StrikePrice.v = row.CE_StrikePrice.v
     ELSE mw_rows[i].StrikePrice.t = row.CE_StrikePrice.t

\* C21, as stated: the rows the adapter returns have strikes in strictly
\* ascending order (so pairwise distinct); there is a row for each strike of
\* a record that passes the conditions and for no other strike; the CE_
\* fields of a row are those of a CE record of its strike that passes and
\* the PE_ fields those of a PE record, absent when there is no such record.
C21_AdapterRows ==
  (mw_chain # NotRun /\ mw_chain.err = None) =>
    LET out_rows == mw_chain.rows
        n == Len(out_rows)
        m == Len(mw_rows)
    IN /\ \A i, j \in 1..n :
            (i < j /\ IsNumber(out_rows[i].CE_StrikePrice) /\ IsNumber(out_rows[j].CE_StrikePrice))
              => out_rows[i].CE_StrikePrice.v < out_rows[j].CE_StrikePrice.v
       /\ \A k \in 1..m :
            Qualifies(k) =>
              \E i \in 1..n : \E opt \in {"CE", "PE"} : RecordOf(k, opt, out_rows[i])
       /\ \A i \in 1..n :
            /\ \E k \in 1..m : \E opt \in {"CE", "PE"} :
                 RecordOf(k, opt, out_rows[i]) /\ mw_rows[k].StrikePrice = out_rows[i].CE_StrikePrice
            /\ IF out_rows[i].CE_LTP = NoField
               THEN IsNumber(out_rows[i].CE_StrikePrice)
                      => ~\E k \in 1..m : RecordOf(k, "CE", out_rows[i])
               ELSE RecordOf(out_rows[i].CE_LTP, "CE", out_rows[i])
            /\ IF out_rows[i].PE_LTP = NoField
               THEN IsNumber(out_rows[i].CE_StrikePrice)
                      => ~\E k \in 1..m : RecordOf(k, "PE", out_rows[i])
               ELSE RecordOf(out_rows[i].PE_LTP, "PE", out_rows[i])

\* --------------------------------------------------------------- C22
\* C22, as stated: the rows a force=false request of /api/option-chain is
\* answered with were built from a payload fetched from upstream less than
\* CACHE_TTL_SECONDS before the request, and not before the time reported
\* as their fetched_at: the rows of a live entry (a hit), and the rows a
\* request has built itself and stores under its own `now` (a miss).
C22_ReportedFetchIsTheFetch ==
  [][ \A r \in Threads :
        /\ ( /\ Arrival(r) /\ pc'[r] = "idle"
             /\ Arrived(r).ep = "option_chain" /\ ~Arrived(r).force
             /\ out'.status = 200 ) =>
             LET k == KeyOf(Arrived(r)) IN
             /\ out'.fetched_at = CACHE[k].fetched_at
             /\ CACHE[k].src_at >= CACHE[k].fetched_at
             /\ now - CACHE[k].src_at < CACHE_TTL_SECONDS
        /\ ( /\ pc[r] = "store" /\ pc'[r] = "idle"
             /\ req[r].ep = "option_chain" /\ ~req[r].force ) =>
             /\ out'.fetched_at = tnow[r]
             /\ lrows[r].src_at >= tnow[r] ]_vars

\* --------------------------------------------------------------- C23
\* A chain request (option_chain or refresh) whose get_cached_rows fails is
\* answered in this step with a status other than 200.
FailedFetch(r) ==
  /\ Completion(r)
  /\ req[r].ep \in ChainEndpoints
  /\ out'.status # 200

\* The last answer given is that of a forced chain request that failed.
LastFailedForced ==
  /\ out.status \notin {0, 200}
  /\ out.req.ep \in ChainEndpoints
  /\ out.req.force

C24_ServingKeepsEntry ==
  [][ /\ entry_rows' = entry_rows
      /\ stage' = "sent" =>
           /\ Len(rows_payload') = Len(chain_rows)
           /\ \A i \in 1..Len(chain_rows) :
                LET name == IF "strike" \in DOMAIN rows_payload'[i]
                            THEN "strike" ELSE "Strike_Price"
                IN rows_payload'[i][name] = [t |-> chain_rows[i].t, v |-> chain_rows[i].v]
    ]_vars

\* The entry holds the rows 300, 100, 200 as fetched; the request has been
\* answered with the lite projection of the second row of their sorted list.
C24_Witness ==
  /\ stage = "sent"
  /\ Len(entry_rows) = 3
  /\ entry_rows[1].v = 300 /\ entry_rows[2].v = 100 /\ entry_rows[3].v = 200
  /\ query.offset = 1 /\ query.limit = 1
  /\ Len(rows_payload) = 1
  /\ DOMAIN rows_payload[1] = {"strike", "ce_ltp", "pe_ltp"}
  /\ rows_payload[1].strike.v = 200

====
